---- MODULE Spec2Model ----
(***************************************************************************)
(* Model of the Debug Adapter Protocol client of debug.py:                 *)
(*   DAPClient   (sequencer, request/response correlator, framer)          *)
(*   DAPDebugger (handshake driver and teardown)                           *)
(* The debug adapter (debugpy in the debuggee process) is the environment. *)
(***************************************************************************)
EXTENDS Integers, Sequences, FiniteSets, TLC

VARIABLES
    pc,          \* position of the caller (start_debug_session or an API caller)
    seq,         \* DAPClient.seq
    sock,        \* DAPClient.socket: "none" | "created" | "connected" | "closed"
    proc,        \* target_process: "none" | "running" | "terminated" | "reaped"
    awaiting,    \* command whose response send_request is looping for, or NoCmd
    response,    \* local variable `response` of the event wait loops
    frame_id,    \* local variable frame_id of start_debug_session
    scopes,      \* scopes_response["body"]["scopes"], the list the for loop walks
    scope_idx,   \* position of the for loop in scopes (0 outside the loop)
    exc,         \* exception in flight / last raised ("none" when there is none)
    out,         \* requests written to the socket, in order
    inbox,       \* frames emitted by the adapter and not yet read by the client
    eof,         \* the adapter has closed its end of the stream
    answered,    \* seqs of the requests the adapter has answered
    emitted,     \* names of the once-only events the adapter has emitted
    built,       \* seq of every request send_request has built, in order
    trace,       \* what the client did: sends, returned responses, awaited events
    lastRet,     \* what the last awaited send_request returned, and for which request
    skipped,     \* labels of the messages send_request has read and passed over
    hung,        \* read_response is spinning on a closed stream
    closeCount,  \* number of socket.close() calls
    termCount,   \* number of target_process.terminate() calls
    waitCount,   \* number of target_process.wait() calls
    \* ---- byte level (read_response on a byte stream) ----
    wire,        \* bytes the peer is still to send
    avail,       \* bytes in the socket receive buffer
    peer,        \* "open", "closed" (orderly shutdown) or "reset"
    rpc,         \* position inside read_response
    headers,     \* local variable headers
    body,        \* local variable body
    content_length, \* local variable content_length
    result,      \* value returned / exception raised by read_response
    frame,       \* index of the frame put on the wire
    emptyReads,  \* number of recv calls that returned b"" (capped)
    recvSizes,   \* number of bytes each recv call returned, in call order
    \* ---- byte level (the write of send_request) ----
    wpc,          \* position inside send_request
    call,         \* the arguments of the call of send_request or set_breakpoints
    request,      \* local variable request
    full_message, \* the bytes of full_message.encode("utf-8")
    handed,       \* the bytes socket.send accepted
    \* ---- demo/data_processor.py: DataProcessor.batch_process ----
    bpc,             \* position inside batch_process
    data,            \* parameter data
    rec_i,           \* loop variable i of `for i, record in enumerate(data)`
    processed_data,  \* local variable processed_data
    processed_count, \* DataProcessor.processed_count
    error_count,     \* DataProcessor.error_count
    batch_exc,       \* the exception batch_process raised ("none" when none)
    \* ---- demo/main.py: main ----
    mpc,             \* position inside main
    processor,       \* what main.DataProcessor is: the class or the mock of the test
    raw_data,        \* local variable raw_data
    main_ret,        \* what main returned ("unset" before it returns)
    main_exc,        \* the exception main raised to its caller ("none" when none)
    \* ---- a caller that calls read_response several times ----
    sent,            \* the frames the peer sends, in order
    results          \* what the read_response calls made so far returned or raised

clientVars == <<pc, seq, sock, proc, awaiting, response, frame_id, scopes, scope_idx, exc>>
wireVars   == <<out, inbox, eof, answered, emitted>>
histVars   == <<built, trace, lastRet, skipped, hung, closeCount, termCount, waitCount>>
writeVars  == <<wpc, call, request, full_message, handed>>
readVars   == <<wire, avail, peer, rpc, headers, body, content_length, result,
                frame, emptyReads, recvSizes>>
batchVars  == <<bpc, data, rec_i, processed_data, processed_count, error_count, batch_exc>>
mainVars   == <<mpc, processor, raw_data, main_ret, main_exc>>
callsVars  == <<sent, results>>
byteVars   == <<readVars, writeVars, batchVars, mainVars, callsVars>>
vars == <<clientVars, wireVars, histVars, byteVars>>

-----------------------------------------------------------------------------
(* Bounds of the model *)
MaxInbox  == 2      \* frames in flight towards the client
MaxCalls  == 3      \* calls the caller of the bare client makes
MaxPeerInbox == 1   \* frames in flight towards the bare client

(* Program constants *)
FirstSeq  == 1
BreakLine == 99
DebugPort == 5678

NoCmd == "none"
None  == "<None>"
NoMsg == [type |-> "none"]

Commands == {"initialize", "attach", "setBreakpoints", "configurationDone",
             "stackTrace", "scopes", "variables"}

(* dict.get(key): the value, or None when the key is absent *)
Get(m, k) == IF k \in DOMAIN m THEN m[k] ELSE None

EmptyDict   == [k \in {} |-> None]      \* {}
NoArguments == [pynone |-> TRUE]        \* arguments=None (the default)

(* `arguments or {}` *)
OrEmpty(arguments) ==
    IF arguments = NoArguments \/ DOMAIN arguments = {} THEN EmptyDict ELSE arguments

-----------------------------------------------------------------------------
(* Messages of the adapter.  A frame in the inbox is either a decodable   *)
(* message (a dict) or a frame read_response cannot decode.  The seq the   *)
(* adapter stamps on its own messages is left out: the client never reads  *)
(* it.                                                                     *)

Resp(rseq, command, success, b) ==
    [type |-> "response", request_seq |-> rseq, command |-> command,
     success |-> success, body |-> b]

Event(name, b) == [type |-> "event", event |-> name, body |-> b]

BadFrame(kind) == [bad |-> kind]

IsBad(f) == "bad" \in DOMAIN f

BadKinds == {"missing_content_length", "invalid_content_length", "bad_json"}

(* the exception read_response raises on a frame it cannot decode *)
ReadError(f) ==
    CASE f.bad = "missing_content_length" -> "IndexError"
      [] f.bad = "invalid_content_length" -> "ValueError"
      [] OTHER                            -> "JSONDecodeError"

ThreadIds == {7, 8}
FrameIds  == {100, 101}
ScopeSet  == {[name |-> "Locals",  variablesReference |-> 55],
              [name |-> "Globals", variablesReference |-> 56]}

SeqsUpTo(S, n) == UNION {[1..k -> S] : k \in 0..n}

(* the scopes lists of a scopes response: no scope twice *)
ScopeLists == {ss \in SeqsUpTo(ScopeSet, Cardinality(ScopeSet)) :
                  \A i, j \in 1..Len(ss) : i # j => ss[i] # ss[j]}

ErrorBody == [error |-> "failed"]

StoppedBodies == {[reason |-> "breakpoint", threadId |-> t] : t \in ThreadIds}
                    \cup {[reason |-> "breakpoint"]}

OutputBody == [category |-> "stdout", output |-> "text"]

EventBodies(name) ==
    IF name = "stopped" THEN StoppedBodies ELSE {EmptyDict}

FrameLists == {<<>>, <<[id |-> 100]>>, <<[id |-> 101], [id |-> 100]>>}

VariableLists == {<<[name |-> "x", value |-> "42"]>>}

(* the bodies the adapter may put in a successful response to a command *)
ResponseBodies(command) ==
    CASE command = "stackTrace" -> {[stackFrames |-> fs] : fs \in FrameLists}
      [] command = "scopes"     -> {[scopes |-> ss] : ss \in ScopeLists}
      [] command = "variables"  -> {[variables |-> vs] : vs \in VariableLists}
      [] OTHER                  -> {EmptyDict}

-----------------------------------------------------------------------------
(* DAPClient.send_request: the request it builds and the response it waits for *)

Request(s, command, arguments) ==
    [seq |-> s, type |-> "request", command |-> command, arguments |-> OrEmpty(arguments)]

MatchesRequestSeq(m, command) ==
    /\ Get(m, "type") = "response" /\ Get(m, "command") = command
    /\ built # <<>> /\ Get(m, "request_seq") = built[Len(built)]

MatchesTypeOnly(m, command) == Get(m, "type") = "response"

MatchesOrAttach(m, command) ==
    Get(m, "type") = "response" /\ Get(m, "command") \in {command, "attach"}

(* the condition of the `if` that ends send_request's read loop *)
Matches(m, command) ==
    Get(m, "type") = "response" /\ Get(m, "command") = command

IsEventOfAnyName(m, name) == Get(m, "type") = "event"

(* the condition of the `if` that ends an event wait loop *)
IsEvent(m, name) ==
    Get(m, "type") = "event" /\ Get(m, "event") = name

NextSeqStuck(s) == s

(* the counter after a request was built *)
NextSeq(s) == s + 1

(* os.getcwd() *)
Cwd == <<"work">>

(* os.path.normpath on the components of an absolute path: "." and empty   *)
(* components go, ".." takes the component before it with it (at the root  *)
(* it just goes)                                                           *)
RECURSIVE NormParts(_, _)
NormParts(parts, acc) ==
    IF parts = <<>> THEN acc
    ELSE IF Head(parts) \in {".", ""} THEN NormParts(Tail(parts), acc)
    ELSE IF Head(parts) = ".."
         THEN NormParts(Tail(parts), IF acc = <<>> THEN acc ELSE SubSeq(acc, 1, Len(acc) - 1))
    ELSE NormParts(Tail(parts), Append(acc, Head(parts)))

AbsPathJoinsAlways(p) ==
    [absolute |-> TRUE, parts |-> NormParts(Cwd \o p.parts, <<>>)]

(* os.path.abspath(p), line 122: normpath(join(getcwd(), p)), a path being *)
(* given as its components                                                 *)
AbsPath(p) ==
    [absolute |-> TRUE,
     parts |-> NormParts(IF p.absolute THEN p.parts ELSE Cwd \o p.parts, <<>>)]

TargetFile == [absolute |-> FALSE, parts |-> <<"demo", "main.py">>]

InitializeArgs ==
    [clientID |-> "dap-demo", clientName |-> "DAP Demo Client", adapterID |-> "python",
     pathFormat |-> "path", linesStartAt1 |-> TRUE, columnsStartAt1 |-> TRUE,
     supportsVariableType |-> TRUE, supportsVariablePaging |-> TRUE,
     supportsRunInTerminalRequest |-> TRUE]

AttachArgs ==
    [connect |-> [host |-> "localhost", port |-> DebugPort],
     pathMappings |-> <<>>, justMyCode |-> FALSE]

SetBreakpointsArgs(file_path, lines) ==
    [source |-> [path |-> AbsPath(file_path)],
     breakpoints |-> [i \in 1..Len(lines) |-> [line |-> lines[i]]]]

-----------------------------------------------------------------------------
(* start_debug_session: positions *)

SendPCs   == {"initialize", "attach", "setBreakpoints", "configurationDone",
              "stackTrace", "scopes", "variables"}
WaitPCs   == {"wait_initialized", "wait_stopped"}
TryPCs    == {"connect"} \cup SendPCs \cup WaitPCs
FinalPCs  == {"finally_close", "finally_terminate", "finally_wait"}
EndPCs    == {"returned", "raised"}

(* wait_for_response of the call made at a position *)
WaitsForResponse(p) == p # "attach"

(* the event each wait loop is looking for *)
AwaitedEvent(p) == IF p = "wait_initialized" THEN "initialized" ELSE "stopped"

ArgsRaiseAtStackTrace(p) == p = "stackTrace"

(* has the expression that builds the arguments of the call at p a missing key? *)
ArgsRaise(p) ==
    /\ p = "stackTrace"
    /\ ("body" \notin DOMAIN response \/ "threadId" \notin DOMAIN response.body)

ArgsAtFirstScope(p) ==
    CASE p = "initialize"        -> InitializeArgs
      [] p = "attach"            -> AttachArgs
      [] p = "setBreakpoints"    -> SetBreakpointsArgs(TargetFile, <<BreakLine>>)
      [] p = "configurationDone" -> NoArguments
      [] p = "stackTrace"        -> [threadId |-> response.body.threadId]
      [] p = "scopes"            -> [frameId |-> frame_id]
      [] p = "variables"         -> [variablesReference |-> scopes[1].variablesReference]

(* the arguments of the call made at position p *)
ArgsAt(p) ==
    CASE p = "initialize"        -> InitializeArgs
      [] p = "attach"            -> AttachArgs
      [] p = "setBreakpoints"    -> SetBreakpointsArgs(TargetFile, <<BreakLine>>)
      [] p = "configurationDone" -> NoArguments
      [] p = "stackTrace"        -> [threadId |-> response.body.threadId]
      [] p = "scopes"            -> [frameId |-> frame_id]
      [] p = "variables"         -> [variablesReference |-> scopes[scope_idx].variablesReference]

AfterRetry(p) ==
    CASE p = "except"            -> "connect"
      [] p = "finally_close"     -> "finally_terminate"
      [] p = "finally_terminate" -> "finally_wait"
      [] p = "popen"             -> "sleep"
      [] p = "sleep"             -> "connect"
      [] p = "connect"           -> "initialize"
      [] p = "initialize"        -> "attach"
      [] p = "attach"            -> "wait_initialized"
      [] p = "wait_initialized"  -> "setBreakpoints"
      [] p = "setBreakpoints"    -> "configurationDone"
      [] p = "configurationDone" -> "wait_stopped"
      [] p = "wait_stopped"      -> "stackTrace"
      [] p = "stackTrace"        -> "scopes"
      [] p = "scopes"            -> "variables"
      [] OTHER                   -> "returned"

AfterSkipsWait(p) ==
    CASE p = "attach"            -> "setBreakpoints"
      [] p = "except"            -> "finally_close"
      [] p = "finally_close"     -> "finally_terminate"
      [] p = "finally_terminate" -> "finally_wait"
      [] p = "popen"             -> "sleep"
      [] p = "sleep"             -> "connect"
      [] p = "connect"           -> "initialize"
      [] p = "initialize"        -> "attach"
      [] p = "wait_initialized"  -> "setBreakpoints"
      [] p = "setBreakpoints"    -> "configurationDone"
      [] p = "configurationDone" -> "wait_stopped"
      [] p = "wait_stopped"      -> "stackTrace"
      [] p = "stackTrace"        -> "scopes"
      [] p = "scopes"            -> "variables"
      [] OTHER                   -> "returned"

AfterSkipsTerminate(p) ==
    CASE p = "finally_close"     -> "finally_wait"
      [] p = "finally_terminate" -> "finally_wait"
      [] p = "except"            -> "finally_close"
      [] p = "popen"             -> "sleep"
      [] p = "sleep"             -> "connect"
      [] p = "connect"           -> "initialize"
      [] p = "initialize"        -> "attach"
      [] p = "attach"            -> "wait_initialized"
      [] p = "wait_initialized"  -> "setBreakpoints"
      [] p = "setBreakpoints"    -> "configurationDone"
      [] p = "configurationDone" -> "wait_stopped"
      [] p = "wait_stopped"      -> "stackTrace"
      [] p = "stackTrace"        -> "scopes"
      [] p = "scopes"            -> "variables"
      [] OTHER                   -> "returned"

(* the position after the statement at p completed, the loop over the scopes aside *)
After(p) ==
    CASE p = "popen"             -> "sleep"
      [] p = "sleep"             -> "connect"
      [] p = "connect"           -> "initialize"
      [] p = "initialize"        -> "attach"
      [] p = "attach"            -> "wait_initialized"
      [] p = "wait_initialized"  -> "setBreakpoints"
      [] p = "setBreakpoints"    -> "configurationDone"
      [] p = "configurationDone" -> "wait_stopped"
      [] p = "wait_stopped"      -> "stackTrace"
      [] p = "stackTrace"        -> "scopes"
      [] p = "scopes"            -> "variables"
      [] p = "except"            -> "finally_close"
      [] p = "finally_close"     -> "finally_terminate"
      [] p = "finally_terminate" -> "finally_wait"
      [] OTHER                   -> "returned"

-----------------------------------------------------------------------------
(* Exceptions.  Inside the try block of start_debug_session an Exception   *)
(* goes to the except clause; a caller of the bare client sees it raised.  *)

Log(tr, op, name) == Append(tr, [op |-> op, name |-> name])

RaiseAfter(e, tr) ==
    /\ pc' = IF pc \in TryPCs THEN "except" ELSE "raised"
    /\ exc' = e
    /\ awaiting' = NoCmd
    /\ trace' = Log(tr, "raise", e)

Raise(e) == RaiseAfter(e, trace)

-----------------------------------------------------------------------------
(* DAPClient.send_request *)

(* line 44: what send_request prints of a message it received *)
Label(m) ==
    [type |-> Get(m, "type"),
     name |-> IF "command" \in DOMAIN m THEN m.command ELSE Get(m, "event")]

AfterReadTwo(stream) ==
    IF Len(stream) > 1 THEN Tail(Tail(stream)) ELSE Tail(stream)

(* the stream after read_response returned (or raised on) its first frame: *)
(* the frame is consumed, and nothing puts a message back                  *)
AfterRead(stream) == Tail(stream)

ReadsAlways(wait_for_response) == TRUE

PassOverPutsBack(rest, m) == <<m>> \o rest

PassOverRequeues(rest, m) ==
    IF Get(m, "type") = "event" THEN Append(rest, m) ELSE rest

(* line 51: the stream after send_request passed over message m, rest being *)
(* what follows m: m is dropped, not kept for a later reader                *)
PassOver(rest, m) == rest

ReadsNever(wait_for_response) == FALSE

(* line 37: does send_request go on to read after the write? *)
ReadsAfterSend(wait_for_response) == wait_for_response

(* lines 22-38: build the request, advance the counter, write the frame,   *)
(* and return at once when no response is awaited                          *)
SendRequest(command, arguments, wait_for_response, ret) ==
    /\ seq' = NextSeq(seq)
    /\ built' = Append(built, Request(seq, command, arguments).seq)
    /\ \/ /\ out' = Append(out, Request(seq, command, arguments))
          /\ awaiting' = IF ReadsAfterSend(wait_for_response) THEN command ELSE NoCmd
          /\ pc' = IF ReadsAfterSend(wait_for_response) THEN pc ELSE ret
          /\ trace' = Log(trace, "send", command)
          /\ exc' = exc
       \/ /\ eof                        \* socket.send on a stream the peer closed
          /\ out' = out
          /\ Raise("BrokenPipeError")
    /\ UNCHANGED <<inbox, eof, answered, emitted>>
    /\ UNCHANGED <<lastRet, skipped, hung>>

(* the iterable of `for var in vars_response["body"]["variables"]` and the *)
(* keys the loop body reads                                                *)
VariablesRaise(m) ==
    \/ "body" \notin DOMAIN m
    \/ "variables" \notin DOMAIN m.body
    \/ \E i \in 1..Len(m.body.variables) :
          {"name", "value"} \ DOMAIN m.body.variables[i] # {}

(* the statements of the caller that follow the return of an awaited call *)
Resume(m) ==
    LET tr == Log(trace, "response", awaiting) IN
    CASE pc = "stackTrace" ->
            IF "body" \notin DOMAIN m \/ "stackFrames" \notin DOMAIN m.body
            THEN RaiseAfter("KeyError", tr) /\ UNCHANGED <<frame_id, scopes, scope_idx>>
            ELSE IF m.body.stackFrames = <<>>
            THEN RaiseAfter("IndexError", tr) /\ UNCHANGED <<frame_id, scopes, scope_idx>>
            ELSE IF "id" \notin DOMAIN m.body.stackFrames[1]
            THEN RaiseAfter("KeyError", tr) /\ UNCHANGED <<frame_id, scopes, scope_idx>>
            ELSE /\ frame_id' = m.body.stackFrames[1].id
                 /\ pc' = After(pc)
                 /\ awaiting' = NoCmd /\ trace' = tr
                 /\ UNCHANGED <<scopes, scope_idx, exc>>
      [] pc = "scopes" ->
            IF "body" \notin DOMAIN m \/ "scopes" \notin DOMAIN m.body
            THEN RaiseAfter("KeyError", tr) /\ UNCHANGED <<frame_id, scopes, scope_idx>>
            ELSE /\ scopes' = m.body.scopes
                 /\ scope_idx' = IF m.body.scopes = <<>> THEN 0 ELSE 1
                 /\ pc' = IF m.body.scopes = <<>> THEN "finally_close" ELSE After(pc)
                 /\ awaiting' = NoCmd /\ trace' = tr
                 /\ UNCHANGED <<frame_id, exc>>
      [] pc = "variables" ->
            IF VariablesRaise(m)
            THEN RaiseAfter("KeyError", tr) /\ UNCHANGED <<frame_id, scopes, scope_idx>>
            ELSE /\ scope_idx' = IF scope_idx < Len(scopes) THEN scope_idx + 1 ELSE 0
                 /\ pc' = IF scope_idx < Len(scopes) THEN "variables" ELSE "finally_close"
                 /\ awaiting' = NoCmd /\ trace' = tr
                 /\ UNCHANGED <<frame_id, scopes, exc>>
      [] pc = "idle" ->
            /\ pc' = "idle"
            /\ awaiting' = NoCmd /\ trace' = tr
            /\ UNCHANGED <<frame_id, scopes, scope_idx, exc>>
      [] OTHER ->
            /\ pc' = After(pc)
            /\ awaiting' = NoCmd /\ trace' = tr
            /\ UNCHANGED <<frame_id, scopes, scope_idx, exc>>

(* lines 41-50: one iteration of the loop that reads until the response *)
AwaitResponse ==
    /\ awaiting # NoCmd
    /\ ~hung
    /\ inbox # <<>>
    /\ LET m == Head(inbox) IN
       /\ inbox' = IF IsBad(m) \/ Matches(m, awaiting)
                   THEN AfterRead(inbox)
                   ELSE PassOver(AfterRead(inbox), m)
       /\ IF IsBad(m)
          THEN /\ Raise(ReadError(m))
               /\ UNCHANGED <<frame_id, scopes, scope_idx, lastRet, skipped>>
          ELSE IF Matches(m, awaiting)
          THEN /\ lastRet' = [command |-> awaiting, request |-> built[Len(built)],
                                message |-> m]
               /\ Resume(m)
               /\ UNCHANGED skipped
          ELSE /\ skipped' = skipped \cup {Label(m)}
               /\ UNCHANGED <<pc, awaiting, exc, frame_id, scopes, scope_idx, trace, lastRet>>
    /\ UNCHANGED <<seq, sock, proc, response>>
    /\ UNCHANGED <<out, eof, answered, emitted>>
    /\ UNCHANGED <<built, hung, closeCount, termCount, waitCount>>
    /\ UNCHANGED byteVars

-----------------------------------------------------------------------------
(* DAPDebugger.start_debug_session *)

(* subprocess.Popen([... "debugpy" ... "demo/main.py"]), before the try *)
Popen ==
    /\ pc = "popen"
    /\ \/ /\ proc' = "running"
          /\ pc' = After(pc)
          /\ UNCHANGED <<exc, trace>>
       \/ /\ pc' = "raised"
          /\ exc' = "OSError"
          /\ trace' = Log(trace, "raise", "OSError")
          /\ UNCHANGED proc
    /\ UNCHANGED <<seq, sock, awaiting, response, frame_id, scopes, scope_idx>>
    /\ UNCHANGED wireVars
    /\ UNCHANGED <<built, lastRet, skipped, hung, closeCount, termCount, waitCount>>
    /\ UNCHANGED byteVars

(* time.sleep(2), before the try *)
Sleep ==
    /\ pc = "sleep"
    /\ pc' = After(pc)
    /\ UNCHANGED <<seq, sock, proc, awaiting, response, frame_id, scopes, scope_idx, exc>>
    /\ UNCHANGED <<wireVars, histVars, byteVars>>

ConnectSwallowsFailure ==
    /\ pc = "connect"
    /\ sock' \in {"connected", "created"}
    /\ pc' = After(pc)
    /\ UNCHANGED <<seq, proc, awaiting, response, frame_id, scopes, scope_idx, exc>>
    /\ UNCHANGED <<wireVars, histVars, byteVars>>

(* DAPClient.connect: socket.socket(...) then socket.connect((host, port)) *)
Connect ==
    /\ pc = "connect"
    /\ \/ /\ sock' = "connected"
          /\ pc' = After(pc)
          /\ UNCHANGED <<exc, awaiting, trace>>
       \/ /\ sock' = "created"
          /\ Raise("ConnectionRefusedError")
       \/ /\ sock' = sock
          /\ Raise("OSError")
    /\ UNCHANGED <<seq, proc, response, frame_id, scopes, scope_idx>>
    /\ UNCHANGED wireVars
    /\ UNCHANGED <<built, lastRet, skipped, hung, closeCount, termCount, waitCount>>
    /\ UNCHANGED byteVars

(* the send_request call of initialize_session, set_breakpoints,           *)
(* configuration_done, get_stack_trace, get_scopes and get_variables       *)
CallSendRequest ==
    /\ pc \in SendPCs
    /\ awaiting = NoCmd
    /\ IF ArgsRaise(pc)
       THEN /\ Raise("KeyError")
            /\ UNCHANGED <<seq, wireVars, built, lastRet, skipped, hung>>
       ELSE SendRequest(pc, ArgsAt(pc), WaitsForResponse(pc), After(pc))
    /\ UNCHANGED <<sock, proc, response, frame_id, scopes, scope_idx>>
    /\ UNCHANGED <<closeCount, termCount, waitCount>>
    /\ UNCHANGED byteVars

(* one iteration of `while True: response = read_response() ...` of        *)
(* initialize_session (initialized) and start_debug_session (stopped)      *)
WaitEvent ==
    /\ pc \in WaitPCs
    /\ ~hung
    /\ inbox # <<>>
    /\ LET m == Head(inbox) IN
       /\ inbox' = AfterRead(inbox)
       /\ IF IsBad(m)
          THEN /\ Raise(ReadError(m))
               /\ UNCHANGED response
          ELSE /\ response' = m
               /\ IF IsEvent(m, AwaitedEvent(pc))
                  THEN /\ pc' = After(pc)
                       /\ trace' = Log(trace, "event", AwaitedEvent(pc))
                  ELSE UNCHANGED <<pc, trace>>
               /\ UNCHANGED <<exc, awaiting>>
    /\ UNCHANGED <<seq, sock, proc, frame_id, scopes, scope_idx>>
    /\ UNCHANGED <<out, eof, answered, emitted>>
    /\ UNCHANGED <<built, lastRet, skipped, hung, closeCount, termCount, waitCount>>
    /\ UNCHANGED byteVars

(* read_response on a stream the peer has closed: recv returns b"" and the *)
(* loops at lines 56 and 65 never end                                      *)
ReadOnClosedStream ==
    /\ awaiting # NoCmd \/ pc \in WaitPCs
    /\ inbox = <<>> /\ eof /\ ~hung
    /\ hung' = TRUE
    /\ UNCHANGED <<clientVars, wireVars, byteVars>>
    /\ UNCHANGED <<built, trace, lastRet, skipped, closeCount, termCount, waitCount>>

(* except Exception as e: print(...) *)
Except ==
    /\ pc = "except"
    /\ pc' = After(pc)
    /\ exc' = "none"
    /\ UNCHANGED <<seq, sock, proc, awaiting, response, frame_id, scopes, scope_idx>>
    /\ UNCHANGED <<wireVars, histVars, byteVars>>

(* finally: if self.client.socket: self.client.socket.close() *)
FinallyClose ==
    /\ pc = "finally_close"
    /\ pc' = After(pc)
    /\ IF sock # "none"
       THEN sock' = "closed" /\ closeCount' = closeCount + 1
       ELSE UNCHANGED <<sock, closeCount>>
    /\ UNCHANGED <<seq, proc, awaiting, response, frame_id, scopes, scope_idx, exc>>
    /\ UNCHANGED wireVars
    /\ UNCHANGED <<built, trace, lastRet, skipped, hung, termCount, waitCount>>
    /\ UNCHANGED byteVars

(* target_process.terminate() *)
FinallyTerminate ==
    /\ pc = "finally_terminate"
    /\ pc' = After(pc)
    /\ proc' = IF proc = "running" THEN "terminated" ELSE proc
    /\ termCount' = termCount + 1
    /\ UNCHANGED <<seq, sock, awaiting, response, frame_id, scopes, scope_idx, exc>>
    /\ UNCHANGED wireVars
    /\ UNCHANGED <<built, trace, lastRet, skipped, hung, closeCount, waitCount>>
    /\ UNCHANGED byteVars

(* target_process.wait(), then the function returns, or the exception the  *)
(* except clause did not catch propagates                                  *)
FinallyWait ==
    /\ pc = "finally_wait"
    /\ pc' = IF exc = "none" THEN "returned" ELSE "raised"
    /\ proc' = "reaped"
    /\ waitCount' = waitCount + 1
    /\ UNCHANGED <<seq, sock, awaiting, response, frame_id, scopes, scope_idx, exc>>
    /\ UNCHANGED wireVars
    /\ UNCHANGED <<built, trace, lastRet, skipped, hung, closeCount, termCount>>
    /\ UNCHANGED byteVars

(* KeyboardInterrupt: not an Exception, so the except clause lets it pass; *)
(* inside the try the finally clause runs, elsewhere nothing does          *)
Interrupt ==
    /\ pc \in {"sleep", "except"} \cup TryPCs \cup FinalPCs
    /\ pc' = IF pc \in TryPCs \cup {"except"} THEN "finally_close" ELSE "raised"
    /\ exc' = "KeyboardInterrupt"
    /\ awaiting' = NoCmd
    /\ hung' = FALSE
    /\ trace' = Log(trace, "raise", "KeyboardInterrupt")
    /\ UNCHANGED <<seq, sock, proc, response, frame_id, scopes, scope_idx>>
    /\ UNCHANGED wireVars
    /\ UNCHANGED <<built, lastRet, skipped, closeCount, termCount, waitCount>>
    /\ UNCHANGED byteVars

-----------------------------------------------------------------------------
(* The debug adapter.  It answers a request at most once, with success or *)
(* failure, in any order; it emits initialized once after it received the *)
(* attach request and stopped once after it received configurationDone;   *)
(* it emits output events at any time; it may emit a frame that does not  *)
(* decode (nothing it sends after that is ever read), and it may close.   *)

AdapterCanEmit ==
    /\ sock = "connected" /\ ~eof
    /\ pc \in TryPCs
    /\ Len(inbox) < MaxInbox
    /\ \A i \in 1..Len(inbox) : ~IsBad(inbox[i])

Received(command) == \E i \in 1..Len(out) : out[i].command = command

(* the request an event is the consequence of *)
Cause(name) == IF name = "initialized" THEN "attach" ELSE "configurationDone"

AdapterRespond ==
    /\ AdapterCanEmit
    /\ \E i \in 1..Len(out) :
          /\ out[i].seq \notin answered
          /\ answered' = answered \cup {out[i].seq}
          /\ \/ \E b \in ResponseBodies(out[i].command) :
                   inbox' = Append(inbox, Resp(out[i].seq, out[i].command, TRUE, b))
             \/ inbox' = Append(inbox, Resp(out[i].seq, out[i].command, FALSE, ErrorBody))
    /\ UNCHANGED <<out, eof, emitted>>
    /\ UNCHANGED <<clientVars, histVars, byteVars>>

AdapterEvent ==
    /\ AdapterCanEmit
    /\ \E name \in {"initialized", "stopped"} : \E b \in EventBodies(name) :
          /\ name \notin emitted
          /\ Received(Cause(name))
          /\ emitted' = emitted \cup {name}
          /\ inbox' = Append(inbox, Event(name, b))
    /\ UNCHANGED <<out, eof, answered>>
    /\ UNCHANGED <<clientVars, histVars, byteVars>>

AdapterOutput ==
    /\ AdapterCanEmit
    /\ inbox' = Append(inbox, Event("output", OutputBody))
    /\ UNCHANGED <<out, eof, answered, emitted>>
    /\ UNCHANGED <<clientVars, histVars, byteVars>>

AdapterGarbage ==
    /\ AdapterCanEmit
    /\ \E kind \in BadKinds : inbox' = Append(inbox, BadFrame(kind))
    /\ UNCHANGED <<out, eof, answered, emitted>>
    /\ UNCHANGED <<clientVars, histVars, byteVars>>

AdapterClose ==
    /\ sock = "connected" /\ ~eof
    /\ pc \in TryPCs \cup {"idle"}
    /\ eof' = TRUE
    /\ UNCHANGED <<out, inbox, answered, emitted>>
    /\ UNCHANGED <<clientVars, histVars, byteVars>>

-----------------------------------------------------------------------------
WriteIdle ==
    /\ wpc = "idle" /\ call = [command |-> <<>>] /\ request = [t |-> "None"]
    /\ full_message = <<>> /\ handed = <<>>

ReadIdle ==
    /\ wire = <<>> /\ avail = <<>> /\ peer = "open"
    /\ rpc = "idle" /\ headers = <<>> /\ body = <<>> /\ content_length = 0
    /\ result = [kind |-> "none"] /\ frame = 0 /\ emptyReads = 0
    /\ recvSizes = <<>>

(* DataProcessor(), lines 16-19, and no call of batch_process *)
BatchIdle ==
    /\ bpc = "idle" /\ data = <<>> /\ rec_i = 0 /\ processed_data = <<>>
    /\ processed_count = 0 /\ error_count = 0 /\ batch_exc = "none"

(* main has not been called *)
MainIdle ==
    /\ mpc = "idle" /\ processor = "DataProcessor" /\ raw_data = [t |-> "None"]
    /\ main_ret = "unset" /\ main_exc = "none"

(* no frame sent, no read_response call completed *)
CallsIdle == sent = <<>> /\ results = <<>>

ByteIdle == ReadIdle /\ WriteIdle /\ BatchIdle /\ MainIdle /\ CallsIdle

ClientIdle ==
    /\ seq = FirstSeq /\ awaiting = NoCmd /\ response = NoMsg
    /\ frame_id = 0 /\ scopes = <<>> /\ scope_idx = 0 /\ exc = "none"
    /\ out = <<>> /\ inbox = <<>> /\ eof = FALSE /\ answered = {} /\ emitted = {}
    /\ built = <<>> /\ trace = <<>>
    /\ lastRet = [command |-> NoCmd, request |-> 0, message |-> NoMsg]
    /\ skipped = {} /\ hung = FALSE
    /\ closeCount = 0 /\ termCount = 0 /\ waitCount = 0

(* DAPDebugger() and DAPClient(): no socket, no process, seq = 1 *)
Init ==
    /\ pc = "popen" /\ sock = "none" /\ proc = "none"
    /\ ClientIdle
    /\ ByteIdle

Next ==
    \/ Popen
    \/ Sleep
    \/ Connect
    \/ CallSendRequest
    \/ AwaitResponse
    \/ WaitEvent
    \/ ReadOnClosedStream
    \/ Except
    \/ FinallyClose
    \/ FinallyTerminate
    \/ FinallyWait
    \/ Interrupt
    \/ AdapterRespond
    \/ AdapterEvent
    \/ AdapterOutput
    \/ AdapterGarbage
    \/ AdapterClose

Spec == Init /\ [][Next]_vars

-----------------------------------------------------------------------------
(* The bare client: a caller that holds a connected DAPClient and calls    *)
(* its request methods in any order, awaited or not, while the peer sends  *)
(* any response or event.                                                  *)

ApiCommands == {"configurationDone", "variables"}

ApiArgs(command) ==
    IF command = "variables" THEN [variablesReference |-> 55] ELSE NoArguments

ApiCall ==
    /\ pc = "idle"
    /\ awaiting = NoCmd
    /\ Len(built) < MaxCalls
    /\ \E command \in ApiCommands : \E wait_for_response \in BOOLEAN :
          SendRequest(command, ApiArgs(command), wait_for_response, "idle")
    /\ UNCHANGED <<sock, proc, response, frame_id, scopes, scope_idx>>
    /\ UNCHANGED <<closeCount, termCount, waitCount>>
    /\ UNCHANGED byteVars

PeerCanEmit ==
    /\ sock = "connected" /\ ~eof
    /\ pc = "idle"
    /\ Len(inbox) < MaxPeerInbox
    /\ \A i \in 1..Len(inbox) : ~IsBad(inbox[i])

PeerRespond ==
    /\ PeerCanEmit
    /\ \E command \in ApiCommands : \E rseq \in 1..Len(built) :
          inbox' = Append(inbox, Resp(rseq, command, TRUE, EmptyDict))
    /\ UNCHANGED <<out, eof, answered, emitted>>
    /\ UNCHANGED <<clientVars, histVars, byteVars>>

PeerEvent ==
    /\ PeerCanEmit
    /\ \E name \in {"initialized", "stopped"} :
          inbox' = Append(inbox, Event(name, EmptyDict))
    /\ UNCHANGED <<out, eof, answered, emitted>>
    /\ UNCHANGED <<clientVars, histVars, byteVars>>

PeerGarbage ==
    /\ PeerCanEmit
    /\ \E kind \in BadKinds : inbox' = Append(inbox, BadFrame(kind))
    /\ UNCHANGED <<out, eof, answered, emitted>>
    /\ UNCHANGED <<clientVars, histVars, byteVars>>

(* a DAPClient after connect() *)
InitAPI ==
    /\ pc = "idle" /\ sock = "connected" /\ proc = "none"
    /\ ClientIdle
    /\ ByteIdle

NextAPI ==
    \/ ApiCall
    \/ AwaitResponse
    \/ ReadOnClosedStream
    \/ PeerRespond
    \/ PeerEvent
    \/ PeerGarbage
    \/ AdapterClose

SpecAPI == InitAPI /\ [][NextAPI]_vars

-----------------------------------------------------------------------------
(* Properties *)

IsSend(e) == e.op = "send"
Sends == SelectSeq(trace, IsSend)
LastOf(tr) == tr[Len(tr)]

(* every occurrence of entry b in the trace has an entry a before it *)
Preceded(a, b) ==
    \A j \in 1..Len(trace) : trace[j] = b => \E i \in 1..(j - 1) : trace[i] = a

SendOf(name)     == [op |-> "send", name |-> name]
ResponseOf(name) == [op |-> "response", name |-> name]
EventOf(name)    == [op |-> "event", name |-> name]

StoppedLabel == [type |-> "event", name |-> "stopped"]

(* C1: the seq values of the requests send_request builds are 1, 2, 3, ... *)
(* in call order, whatever the commands and whether awaited or not, and    *)
(* the counter is one past the last seq handed out.                        *)
C1_SeqIncreasesByOne ==
    /\ \A i \in 1..Len(built) : built[i] = FirstSeq + (i - 1)
    /\ seq = FirstSeq + Len(built)
    /\ \A i \in 1..Len(out) : \A j \in 1..Len(out) : i < j => out[i].seq < out[j].seq

(* two fire-and-forget requests were written, then an awaited one *)
C1_Witness ==
    /\ built = <<1, 2, 3>> /\ Len(out) = 3
    /\ awaiting # NoCmd /\ lastRet.command = NoCmd

(* C2: what an awaited send_request returns is a response whose command is *)
(* the command of the request it has just written.                         *)
C2_ReturnsMatchingResponse ==
    lastRet.command # NoCmd =>
        /\ Get(lastRet.message, "type") = "response"
        /\ Get(lastRet.message, "command") = lastRet.command
        /\ \E i \in 1..Len(out) :
              out[i].seq = lastRet.request /\ out[i].command = lastRet.command

(* a response was returned after an event and a response to another        *)
(* command had been passed over                                            *)
C2_Witness ==
    /\ lastRet.command = "variables"
    /\ [type |-> "event", name |-> "stopped"] \in skipped
    /\ [type |-> "response", name |-> "configurationDone"] \in skipped

(* C5: when start_debug_session is over and the debuggee was spawned, the  *)
(* socket, if one was opened, has been closed exactly once and the process *)
(* has been terminated once and waited for once.                           *)
C5_ReleasedExactlyOnce ==
    (pc \in EndPCs /\ proc # "none") =>
        /\ sock # "none" => (sock = "closed" /\ closeCount = 1)
        /\ termCount = 1 /\ waitCount = 1 /\ proc = "reaped"

AbortedPCs == {"except"} \cup FinalPCs \cup EndPCs

(* C6: a step that raises leaves the handshake for good: from then on no   *)
(* request is built or written and no frame is read, and the except clause *)
(* is followed by the teardown.                                            *)
C6_ErrorAbortsHandshake ==
    [][ /\ (trace' # trace /\ LastOf(trace').op = "raise") => pc' \in AbortedPCs
        /\ pc \in AbortedPCs =>
              /\ pc' \in AbortedPCs
              /\ out' = out /\ built' = built /\ inbox' = inbox
        /\ pc = "except" => pc' = "finally_close" ]_vars

(* the stackTrace step raised while a frame was still unread, and the      *)
(* teardown has closed the socket                                          *)
C6_Witness ==
    /\ pc = "finally_terminate" /\ sock = "closed"
    /\ LastOf(trace) = [op |-> "raise", name |-> "IndexError"]
    /\ Len(out) = 5 /\ inbox # <<>>

HandshakeOrder ==
    <<"initialize", "attach", "setBreakpoints", "configurationDone", "stackTrace", "scopes">>

(* C7: the commands written are a prefix of initialize, attach,            *)
(* setBreakpoints, configurationDone, stackTrace, scopes, variables...,    *)
(* with at most one variables per scope; setBreakpoints comes after the    *)
(* initialized event, configurationDone after the setBreakpoints response, *)
(* stackTrace after the stopped event.                                     *)
C7_CommandOrder ==
    /\ \A i \in 1..Len(Sends) :
          Sends[i].name = IF i <= Len(HandshakeOrder) THEN HandshakeOrder[i] ELSE "variables"
    /\ Len(Sends) > Len(HandshakeOrder) => Len(Sends) - Len(HandshakeOrder) <= Len(scopes)
    /\ Preceded(EventOf("initialized"), SendOf("setBreakpoints"))
    /\ Preceded(ResponseOf("setBreakpoints"), SendOf("configurationDone"))
    /\ Preceded(EventOf("stopped"), SendOf("stackTrace"))

(* the whole handshake ran, with one variables request for each of two scopes *)
C7_Witness ==
    /\ pc = "returned" /\ Len(scopes) = 2
    /\ Len(Sends) = Len(HandshakeOrder) + 2
    /\ \A i \in 1..Len(trace) : trace[i].op # "raise"

(* C8 as claimed: a stopped event send_request passed over is there for    *)
(* the wait loop that follows.                                             *)
C8_SkippedEventStillInStream ==
    (pc = "wait_stopped" /\ StoppedLabel \in skipped) =>
        \E i \in 1..Len(inbox) : ~IsBad(inbox[i]) /\ IsEvent(inbox[i], "stopped")

(* C8 amended: send_request never returns an event, and the stopped event  *)
(* it passed over is gone: it is not in the stream and the wait loop for   *)
(* stopped does not return it.                                             *)
C8_SkippedEventIsDiscarded ==
    /\ lastRet.command # NoCmd => Get(lastRet.message, "type") # "event"
    /\ StoppedLabel \in skipped =>
          /\ \A i \in 1..Len(inbox) : IsBad(inbox[i]) \/ ~IsEvent(inbox[i], "stopped")
          /\ \A i \in 1..Len(trace) : trace[i] # EventOf("stopped")
          /\ pc \notin {"stackTrace", "scopes", "variables"}

(* the stopped event came before the configurationDone response; the       *)
(* response was returned and the wait loop for stopped is running          *)
C8_Witness ==
    /\ pc = "wait_stopped" /\ StoppedLabel \in skipped
    /\ lastRet.command = "configurationDone"

(* C9: the step of a send_request that awaits nothing (attach) writes the  *)
(* request and reads nothing, and the initialized event the adapter emits  *)
(* afterwards is in the stream for the wait loop.                          *)
C9_FireAndForgetReadsNothing ==
    /\ [][ (pc = "attach" /\ built' # built) =>
              /\ inbox' = inbox /\ awaiting' = NoCmd
              /\ pc' \in {"wait_initialized", "except"} ]_vars
    /\ [] ( (pc = "wait_initialized" /\ "initialized" \in emitted) =>
              \E i \in 1..Len(inbox) : ~IsBad(inbox[i]) /\ IsEvent(inbox[i], "initialized") )

(* the wait loop returned the initialized event; attach was never answered *)
C9_Witness ==
    /\ pc = "setBreakpoints" /\ IsEvent(response, "initialized")
    /\ \A i \in 1..Len(out) : out[i].command = "attach" => out[i].seq \notin answered

(***************************************************************************)
(* Byte level: read_response on a TCP byte stream.                         *)
(* A byte is a one-character string; NonUtf8 stands for a byte that is not *)
(* valid UTF-8 (such as 0xFF).  The streams of the model use JSON without  *)
(* string escapes, fractions and exponents.                                *)
(***************************************************************************)
MaxEmptyReads == 2   \* recv calls returning b"" that the model counts

NonUtf8 == "0xFF"
CRLF == <<"\r", "\n">>

(* line 56: b"\r\n\r\n" *)
Terminator == CRLF \o CRLF

(* line 61: "Content-Length: " *)
Key == <<"C","o","n","t","e","n","t","-","L","e","n","g","t","h",":"," ">>

SetMin(S) == CHOOSE x \in S : \A y \in S : x <= y
SetMax(S) == CHOOSE x \in S : \A y \in S : x >= y
Drop(s, n) == SubSeq(s, n + 1, Len(s))

(* index of the first occurrence of sub in s, 0 when there is none *)
(* (bytes.__contains__ at line 56, the search inside str.split)    *)
Find(s, sub) ==
    LET at == {i \in 1..(Len(s) - Len(sub) + 1) : SubSeq(s, i, i + Len(sub) - 1) = sub}
    IN IF at = {} THEN 0 ELSE SetMin(at)

(* str.split(sep), line 61 *)
RECURSIVE Split(_, _)
Split(s, sep) ==
    LET i == Find(s, sep)
    IN IF i = 0 THEN <<s>>
       ELSE <<SubSeq(s, 1, i - 1)>> \o Split(Drop(s, i + Len(sep) - 1), sep)

(* bytes.decode("utf-8"), lines 60 and 68 *)
(* The characters outside ASCII that the model has, named by code point,   *)
(* and their UTF-8 bytes, named by value.                                  *)
Multibyte ==
    [c \in {"U+00E9", "U+20AC", "U+1F600"} |->
        CASE c = "U+00E9"  -> <<"0xC3", "0xA9">>
          [] c = "U+20AC"  -> <<"0xE2", "0x82", "0xAC">>
          [] c = "U+1F600" -> <<"0xF0", "0x9F", "0x98", "0x80">>]

HighBytes == {NonUtf8} \cup UNION {{Multibyte[c][i] : i \in 1..Len(Multibyte[c])} :
                                        c \in DOMAIN Multibyte}

(* the character whose encoding starts at position i of bytes, if any *)
DecodedAt(bytes, i) ==
    {c \in DOMAIN Multibyte :
        /\ i + Len(Multibyte[c]) - 1 <= Len(bytes)
        /\ SubSeq(bytes, i, i + Len(Multibyte[c]) - 1) = Multibyte[c]}

(* is position i inside the encoding of a character that starts before i? *)
Continues(bytes, i) ==
    \E j \in 1..(i - 1) : \E c \in DecodedAt(bytes, j) : i <= j + Len(Multibyte[c]) - 1

(* bytes.decode("utf-8"), lines 60 and 68: UnicodeDecodeError on a byte    *)
(* that is not part of a well-formed sequence                              *)
Utf8Decode(bytes) ==
    IF \A i \in 1..Len(bytes) : bytes[i] \notin HighBytes
    THEN [ok |-> TRUE, str |-> bytes]
    ELSE IF \E i \in 1..Len(bytes) :
               /\ bytes[i] \in HighBytes
               /\ DecodedAt(bytes, i) = {} /\ ~Continues(bytes, i)
    THEN [ok |-> FALSE]
    ELSE LET starts == {i \in 1..Len(bytes) : ~Continues(bytes, i)}
             at(k) == CHOOSE i \in starts : Cardinality({j \in starts : j <= i}) = k
         IN [ok |-> TRUE,
             str |-> [k \in 1..Cardinality(starts) |->
                         IF bytes[at(k)] \in HighBytes
                         THEN CHOOSE c \in DecodedAt(bytes, at(k)) : TRUE
                         ELSE bytes[at(k)]]]

DigitChars == <<"0","1","2","3","4","5","6","7","8","9">>
IsDigit(c) == \E i \in 1..Len(DigitChars) : DigitChars[i] = c
DigitVal(c) == (CHOOSE i \in 1..Len(DigitChars) : DigitChars[i] = c) - 1
Whitespace == {" ", "\t", "\n", "\r", "\f"}

Strip(s) ==
    LET keep == {i \in 1..Len(s) : s[i] \notin Whitespace}
    IN IF keep = {} THEN <<>> ELSE SubSeq(s, SetMin(keep), SetMax(keep))

RECURSIVE DigitsValue(_, _)
DigitsValue(ds, acc) ==
    IF ds = <<>> THEN acc
    ELSE IF Head(ds) = "_" THEN DigitsValue(Tail(ds), acc)
    ELSE DigitsValue(Tail(ds), 10 * acc + DigitVal(Head(ds)))

(* int(text), line 61: surrounding whitespace, an optional sign, decimal   *)
(* digits with single underscores between them; anything else ValueError   *)
IntOf(text) ==
    LET t == Strip(text)
        signed == t # <<>> /\ Head(t) \in {"+", "-"}
        u == IF signed THEN Tail(t) ELSE t
        wellFormed ==
            /\ u # <<>>
            /\ \A i \in 1..Len(u) : IsDigit(u[i]) \/ u[i] = "_"
            /\ u[1] # "_" /\ u[Len(u)] # "_"
            /\ \A i \in 1..(Len(u) - 1) : ~(u[i] = "_" /\ u[i + 1] = "_")
    IN IF ~wellFormed THEN [ok |-> FALSE]
       ELSE [ok |-> TRUE,
             val |-> IF signed /\ Head(t) = "-"
                     THEN 0 - DigitsValue(u, 0) ELSE DigitsValue(u, 0)]

(***************************************************************************)
(* json.loads, line 68.  A parsed value is tagged with its Python type; a  *)
(* dict is a function from its keys, so that a repeated key keeps the last *)
(* value and the order of the members does not matter.                     *)
(***************************************************************************)
JsonWs == {" ", "\t", "\n", "\r"}
Fail == [ok |-> FALSE]
Ok(v, rest) == [ok |-> TRUE, val |-> v, rest |-> rest]
StartsWith(s, prefix) == Len(s) >= Len(prefix) /\ SubSeq(s, 1, Len(prefix)) = prefix
Put(d, k, v) == [x \in DOMAIN d \cup {k} |-> IF x = k THEN v ELSE d[x]]

RECURSIVE SkipWs(_)
SkipWs(s) == IF s # <<>> /\ Head(s) \in JsonWs THEN SkipWs(Tail(s)) ELSE s

HexDigits == <<"0","1","2","3","4","5","6","7","8","9","a","b","c","d","e","f">>
HexDigitsUpper == <<"0","1","2","3","4","5","6","7","8","9","A","B","C","D","E","F">>
IsHex(c) == \E i \in 1..16 : HexDigits[i] = c \/ HexDigitsUpper[i] = c
HexVal(c) == (CHOOSE i \in 1..16 : HexDigits[i] = c \/ HexDigitsUpper[i] = c) - 1

(* the characters of ASCII from the space (32) to the tilde (126); the     *)
(* grave accent (96) goes by its name                                      *)
Printable ==
    <<" ","!","\"","#","$","%","&","'","(",")","*","+",",","-",".","/",
      "0","1","2","3","4","5","6","7","8","9",":",";","<","=",">","?",
      "@","A","B","C","D","E","F","G","H","I","J","K","L","M","N","O",
      "P","Q","R","S","T","U","V","W","X","Y","Z","[","\\","]","^","_",
      "U+0060","a","b","c","d","e","f","g","h","i","j","k","l","m","n","o",
      "p","q","r","s","t","u","v","w","x","y","z","{","|","}","~">>

RECURSIVE UpperHex(_)
UpperHex(n) ==
    IF n < 16 THEN HexDigitsUpper[n + 1]
    ELSE UpperHex(n \div 16) \o HexDigitsUpper[(n % 16) + 1]

(* chr(n): the character itself inside ASCII, its name U+XXXX outside *)
Chr(n) ==
    IF n >= 32 /\ n <= 126 THEN Printable[n - 31]
    ELSE IF n = 9 THEN "\t"
    ELSE IF n = 10 THEN "\n"
    ELSE IF n = 12 THEN "\f"
    ELSE IF n = 13 THEN "\r"
    ELSE IF n < 16 THEN "U+000" \o UpperHex(n)
    ELSE IF n < 256 THEN "U+00" \o UpperHex(n)
    ELSE IF n < 4096 THEN "U+0" \o UpperHex(n)
    ELSE "U+" \o UpperHex(n)

(* a character that may not stand unescaped in a JSON string (strict mode) *)
ControlChars == {"\t", "\n", "\f", "\r"}

(* the four hexadecimal digits at the head of s, as a number; -1 without them *)
Hex4(s) ==
    IF Len(s) >= 4 /\ \A i \in 1..4 : IsHex(s[i])
    THEN 4096 * HexVal(s[1]) + 256 * HexVal(s[2]) + 16 * HexVal(s[3]) + HexVal(s[4])
    ELSE 0 - 1

(* s follows the backslash: the character the escape stands for and the    *)
(* number of characters of s it takes; a high surrogate followed by an     *)
(* escaped low surrogate is one character                                  *)
Unescape(s) ==
    IF s = <<>> THEN Fail
    ELSE IF Head(s) \in {"\"", "\\", "/"} THEN [ok |-> TRUE, c |-> Head(s), n |-> 1]
    ELSE IF Head(s) = "b" THEN [ok |-> TRUE, c |-> Chr(8), n |-> 1]
    ELSE IF Head(s) = "f" THEN [ok |-> TRUE, c |-> "\f", n |-> 1]
    ELSE IF Head(s) = "n" THEN [ok |-> TRUE, c |-> "\n", n |-> 1]
    ELSE IF Head(s) = "r" THEN [ok |-> TRUE, c |-> "\r", n |-> 1]
    ELSE IF Head(s) = "t" THEN [ok |-> TRUE, c |-> "\t", n |-> 1]
    ELSE IF Head(s) # "u" THEN Fail
    ELSE LET hi == Hex4(Tail(s))
             lo == IF Len(s) >= 11 /\ s[6] = "\\" /\ s[7] = "u"
                   THEN Hex4(SubSeq(s, 8, 11)) ELSE 0 - 1
         IN IF hi < 0 THEN Fail
            ELSE IF hi >= 55296 /\ hi <= 56319 /\ lo >= 56320 /\ lo <= 57343
            THEN [ok |-> TRUE, c |-> Chr(65536 + (hi - 55296) * 1024 + (lo - 56320)),
                  n |-> 11]
            ELSE [ok |-> TRUE, c |-> Chr(hi), n |-> 5]

(* s follows the opening quote; acc holds the characters read so far *)
RECURSIVE ScanChars(_, _)
ScanChars(s, acc) ==
    IF s = <<>> THEN Fail
    ELSE IF Head(s) = "\"" THEN Ok([t |-> "str", v |-> acc], Tail(s))
    ELSE IF Head(s) \in ControlChars THEN Fail
    ELSE IF Head(s) # "\\" THEN ScanChars(Tail(s), Append(acc, Head(s)))
    ELSE LET e == Unescape(Tail(s))
         IN IF ~e.ok THEN Fail
            ELSE ScanChars(Drop(s, 1 + e.n), Append(acc, e.c))

(* s follows the opening quote *)
ScanString(s) == ScanChars(s, <<>>)

(* an optional minus sign, then 0 or a run of digits that does not start with 0 *)
ScanNumber(s) ==
    LET neg == s # <<>> /\ Head(s) = "-"
        u == IF neg THEN Tail(s) ELSE s
        stop == {i \in 1..Len(u) : ~IsDigit(u[i])}
        run == IF stop = {} THEN Len(u) ELSE SetMin(stop) - 1
        n == IF run > 0 /\ u[1] = "0" THEN 1 ELSE run
        val == DigitsValue(SubSeq(u, 1, n), 0)
    IN IF n = 0 THEN Fail
       ELSE Ok([t |-> "int", v |-> IF neg THEN 0 - val ELSE val], Drop(u, n))

RECURSIVE ParseValue(_), ParseMembers(_, _), ParseElements(_, _)

(* s is at the first character of the value *)
ParseValue(s) ==
    IF s = <<>> THEN Fail
    ELSE IF Head(s) = "{"
         THEN LET t == SkipWs(Tail(s))
              IN IF t # <<>> /\ Head(t) = "}"
                 THEN Ok([t |-> "dict", v |-> <<>>], Tail(t))
                 ELSE ParseMembers(t, <<>>)
    ELSE IF Head(s) = "["
         THEN LET t == SkipWs(Tail(s))
              IN IF t # <<>> /\ Head(t) = "]"
                 THEN Ok([t |-> "list", v |-> <<>>], Tail(t))
                 ELSE ParseElements(t, <<>>)
    ELSE IF Head(s) = "\"" THEN ScanString(Tail(s))
    ELSE IF StartsWith(s, <<"t","r","u","e">>) THEN Ok([t |-> "bool", v |-> TRUE], Drop(s, 4))
    ELSE IF StartsWith(s, <<"f","a","l","s","e">>) THEN Ok([t |-> "bool", v |-> FALSE], Drop(s, 5))
    ELSE IF StartsWith(s, <<"n","u","l","l">>) THEN Ok([t |-> "None"], Drop(s, 4))
    ELSE ScanNumber(s)

(* s is at the first character of a member's key, d holds the members so far *)
ParseMembers(s, d) ==
    IF s = <<>> \/ Head(s) # "\"" THEN Fail
    ELSE LET k == ScanString(Tail(s))
         IN IF ~k.ok THEN Fail
            ELSE LET c == SkipWs(k.rest)
                 IN IF c = <<>> \/ Head(c) # ":" THEN Fail
                    ELSE LET v == ParseValue(SkipWs(Tail(c)))
                         IN IF ~v.ok THEN Fail
                            ELSE LET e == SkipWs(v.rest)
                                     d2 == Put(d, k.val.v, v.val)
                                 IN IF e = <<>> THEN Fail
                                    ELSE IF Head(e) = "}"
                                         THEN Ok([t |-> "dict", v |-> d2], Tail(e))
                                    ELSE IF Head(e) = ","
                                         THEN ParseMembers(SkipWs(Tail(e)), d2)
                                    ELSE Fail

(* s is at the first character of an element, l holds the elements so far *)
ParseElements(s, l) ==
    LET v == ParseValue(s)
    IN IF ~v.ok THEN Fail
       ELSE LET e == SkipWs(v.rest)
                l2 == Append(l, v.val)
            IN IF e = <<>> THEN Fail
               ELSE IF Head(e) = "]" THEN Ok([t |-> "list", v |-> l2], Tail(e))
               ELSE IF Head(e) = "," THEN ParseElements(SkipWs(Tail(e)), l2)
               ELSE Fail

(* json.loads(text): one value between optional whitespace, nothing after *)
JsonLoads(text) ==
    LET r == ParseValue(SkipWs(text))
    IN IF r.ok /\ SkipWs(r.rest) = <<>> THEN [ok |-> TRUE, val |-> r.val] ELSE Fail

(* Byte streams the peer may send; each is given as its text. *)

(* a frame as the adapter writes it: Content-Length: 7\r\n\r\n{"a":1} *)
FramePlain ==
    Key
    \o <<"7">>
    \o Terminator
    \o <<"{","\"","a","\"",":","1","}">>

(* a frame with a nested body: Content-Length: 16\r\n\r\n{"k":[true,-20]} *)
FrameNested ==
    Key
    \o <<"1","6">>
    \o Terminator
    \o <<"{","\"","k","\"",":","[","t","r","u","e",",","-","2","0","]","}">>

(* a body with whitespace around its tokens: Content-Length: 12\r\n\r\n {"a" : "b"}  *)
FrameSpaced ==
    Key
    \o <<"1","2">>
    \o Terminator
    \o <<" ","{","\"","a","\""," ",":"," ","\"","b","\"","}"," ">>

(* two frames back to back: Content-Length: 2\r\n\r\n{}Content-Length: 2\r\n\r\n[] *)
FrameTwo ==
    Key
    \o <<"2">>
    \o Terminator
    \o <<"{","}","C","o","n","t","e","n","t","-","L","e","n","g","t","h",":"," ","2","\r","\n","\r","\n","[","]">>

(* a header field before Content-Length: Content-Type: x\r\nContent-Length: 2\r\n\r\n{} *)
FrameExtraHeader ==
    <<"C","o","n","t","e","n","t","-","T","y","p","e",":"," ","x","\r","\n">>
    \o Key
    \o <<"2">>
    \o Terminator
    \o <<"{","}">>

(* a length that int() accepts: Content-Length: +0_2 \r\n\r\n{} *)
FrameLenient ==
    Key
    \o <<"+","0","_","2"," ">>
    \o Terminator
    \o <<"{","}">>

(* a length that is not a number: Content-Length: two\r\n\r\n{} *)
FrameNotANumber ==
    Key
    \o <<"t","w","o">>
    \o Terminator
    \o <<"{","}">>

(* a negative length: Content-Length: -1\r\n\r\n{} *)
FrameNegative ==
    Key
    \o <<"-","1">>
    \o Terminator
    \o <<"{","}">>

(* a zero length: Content-Length: 0\r\n\r\n *)
FrameZero ==
    Key
    \o <<"0">>
    \o Terminator

(* a body that is not JSON: Content-Length: 2\r\n\r\n{x *)
FrameBadJson ==
    Key
    \o <<"2">>
    \o Terminator
    \o <<"{","x">>

(* a body with a trailing comma: Content-Length: 8\r\n\r\n{"a":1,} *)
FrameTrailingComma ==
    Key
    \o <<"8">>
    \o Terminator
    \o <<"{","\"","a","\"",":","1",",","}">>

(* no Content-Length field at all: Content-Type: x\r\n\r\n{} *)
FrameNoContentLength ==
    <<"C","o","n","t","e","n","t","-","T","y","p","e",":"," ","x","\r","\n","\r","\n","{","}">>

(* the field name in lower case: content-length: 2\r\n\r\n{} *)
FrameLowerCase ==
    <<"c","o","n","t","e","n","t","-","l","e","n","g","t","h",":"," ","2","\r","\n","\r","\n","{","}">>

(* a different field whose name ends in Content-Length: X-Content-Length: 2\r\n\r\n{} *)
FrameXContentLength ==
    <<"X","-","C","o","n","t","e","n","t","-","L","e","n","g","t","h",":"," ","2","\r","\n","\r","\n","{","}">>

(* a body that is not UTF-8: Content-Length: 1\r\n\r\n followed by the byte 0xFF *)
FrameNonUtf8 ==
    Key \o <<"1">> \o Terminator \o <<NonUtf8>>

Streams ==
    <<FramePlain,
      FrameNested,
      FrameSpaced,
      FrameTwo,
      FrameExtraHeader,
      FrameLenient,
      FrameNotANumber,
      FrameNegative,
      FrameZero,
      FrameBadJson,
      FrameTrailingComma,
      FrameNoContentLength,
      FrameLowerCase,
      FrameXContentLength,
      FrameNonUtf8>>

(***************************************************************************)
(* read_response, lines 53-68, one action per loop iteration or statement. *)
(***************************************************************************)
Returned(v) == [kind |-> "returned", value |-> v]
Raised(e) == [kind |-> "raised", error |-> e]

(* lines 60-61: the announced length, or the exception the parsing raises *)
HeaderOutcome(hdr) ==
    LET header_str == Utf8Decode(hdr)
    IN IF ~header_str.ok THEN Raised("UnicodeDecodeError")
       ELSE LET parts == Split(header_str.str, Key)
            IN IF Len(parts) < 2 THEN Raised("IndexError")
               ELSE LET n == IntOf(Split(parts[2], CRLF)[1])
                    IN IF ~n.ok THEN Raised("ValueError")
                       ELSE [kind |-> "length", n |-> n.val]

(* line 68: the message, or the exception the decoding raises *)
DecodeOutcome(b) ==
    LET text == Utf8Decode(b)
    IN IF ~text.ok THEN Raised("UnicodeDecodeError")
       ELSE LET j == JsonLoads(text.str)
            IN IF ~j.ok THEN Raised("JSONDecodeError") ELSE Returned(j.val)

RecvSizeOneMore(bufsize, available) ==
    IF bufsize < available THEN bufsize + 1 ELSE available

RecvSizeGreedy(bufsize, available) == available

(* socket.recv(bufsize) with data in the buffer, lines 57 and 66: what is *)
(* there, up to bufsize bytes                                             *)
RecvSize(bufsize, available) == IF bufsize < available THEN bufsize ELSE available

Reading == rpc \in {"headers", "parse", "body"}
FramerIdle == UNCHANGED <<clientVars, wireVars, histVars, writeVars, batchVars, mainVars, callsVars, frame>>

(* the peer's bytes reach the receive buffer, in chunks of any size *)
Deliver ==
    /\ Reading /\ peer = "open" /\ wire # <<>>
    /\ \E k \in 1..Len(wire) :
          /\ avail' = avail \o SubSeq(wire, 1, k)
          /\ wire' = Drop(wire, k)
    /\ UNCHANGED <<peer, rpc, headers, body, content_length, result, emptyReads, recvSizes>>
    /\ FramerIdle

(* the peer shuts the connection down; what it had not sent never arrives *)
PeerClose ==
    /\ Reading /\ peer = "open"
    /\ peer' = "closed"
    /\ wire' = <<>>
    /\ UNCHANGED <<avail, rpc, headers, body, content_length, result, emptyReads, recvSizes>>
    /\ FramerIdle

(* the peer resets the connection; buffered bytes are lost *)
PeerReset ==
    /\ Reading /\ peer = "open"
    /\ peer' = "reset"
    /\ wire' = <<>>
    /\ avail' = <<>>
    /\ UNCHANGED <<rpc, headers, body, content_length, result, emptyReads, recvSizes>>
    /\ FramerIdle

(* what one socket.recv(bufsize) call does: it returns data when there is   *)
(* some, b"" at end of stream, raises ConnectionResetError after a reset,   *)
(* and does not return while the peer is open and silent                    *)
Recv(bufsize) ==
    IF avail # <<>>
    THEN [kind |-> "data", data |-> SubSeq(avail, 1, RecvSize(bufsize, Len(avail)))]
    ELSE IF peer = "closed" THEN [kind |-> "data", data |-> <<>>]
    ELSE IF peer = "reset" THEN Raised("ConnectionResetError")
    ELSE [kind |-> "blocked"]

(* the bytes r.data leave the receive buffer; the call is counted *)
Consume(r) ==
    /\ r.data = <<>> => emptyReads < MaxEmptyReads
    /\ avail' = Drop(avail, Len(r.data))
    /\ recvSizes' = Append(recvSizes, Len(r.data))
    /\ emptyReads' = IF r.data = <<>> THEN emptyReads + 1 ELSE emptyReads

(* lines 56-57: while b"\r\n\r\n" not in headers: headers += recv(1) *)
RecvHeader ==
    /\ rpc = "headers"
    /\ LET r == Recv(1)
       IN /\ r.kind # "blocked"
          /\ IF r.kind = "raised"
             THEN /\ rpc' = "raised"
                  /\ result' = r
                  /\ UNCHANGED <<avail, headers, emptyReads, recvSizes>>
             ELSE /\ Consume(r)
                  /\ headers' = headers \o r.data
                  /\ rpc' = IF Find(headers', Terminator) = 0 THEN "headers" ELSE "parse"
                  /\ UNCHANGED result
    /\ UNCHANGED <<wire, peer, body, content_length>>
    /\ FramerIdle

(* lines 60-61 *)
ParseHeader ==
    /\ rpc = "parse"
    /\ LET o == HeaderOutcome(headers)
       IN IF o.kind = "raised"
          THEN /\ rpc' = "raised" /\ result' = o /\ UNCHANGED content_length
          ELSE /\ rpc' = "body" /\ content_length' = o.n /\ UNCHANGED result
    /\ UNCHANGED <<wire, avail, peer, headers, body, emptyReads, recvSizes>>
    /\ FramerIdle

(* lines 65-66: while len(body) < content_length: body += recv(the rest) *)
RecvBody ==
    /\ rpc = "body" /\ Len(body) < content_length
    /\ LET r == Recv(content_length - Len(body))
       IN /\ r.kind # "blocked"
          /\ IF r.kind = "raised"
             THEN /\ rpc' = "raised"
                  /\ result' = r
                  /\ UNCHANGED <<avail, body, emptyReads, recvSizes>>
             ELSE /\ Consume(r)
                  /\ body' = body \o r.data
                  /\ UNCHANGED <<rpc, result>>
    /\ UNCHANGED <<wire, peer, headers, content_length>>
    /\ FramerIdle

(* line 68, reached when the loop condition at line 65 is false *)
Decode ==
    /\ rpc = "body" /\ ~(Len(body) < content_length)
    /\ result' = DecodeOutcome(body)
    /\ rpc' = result'.kind
    /\ UNCHANGED <<wire, avail, peer, headers, body, content_length, emptyReads, recvSizes>>
    /\ FramerIdle

(* read_response is called on a connected socket; the peer sends one of Streams *)
InitFramer ==
    /\ pc = "idle" /\ sock = "connected" /\ proc = "none"
    /\ ClientIdle
    /\ WriteIdle /\ BatchIdle /\ MainIdle /\ CallsIdle
    /\ frame \in 1..Len(Streams)
    /\ wire = Streams[frame] /\ avail = <<>> /\ peer = "open"
    /\ rpc = "headers" /\ headers = <<>> /\ body = <<>> /\ content_length = 0
    /\ result = [kind |-> "none"] /\ emptyReads = 0 /\ recvSizes = <<>>

NextFramer ==
    \/ Deliver
    \/ PeerClose
    \/ PeerReset
    \/ RecvHeader
    \/ ParseHeader
    \/ RecvBody
    \/ Decode

SpecFramer == InitFramer /\ [][NextFramer]_vars

(* read_response with the whole stream in the receive buffer and the peer  *)
(* still open: what it returns or raises, or that it blocks in recv        *)
OneShot(stream) ==
    LET t == Find(stream, Terminator)
    IN IF t = 0 THEN [kind |-> "blocked"]
       ELSE LET o == HeaderOutcome(SubSeq(stream, 1, t + Len(Terminator) - 1))
                rest == Drop(stream, t + Len(Terminator) - 1)
            IN IF o.kind = "raised" THEN o
               ELSE IF Len(rest) < o.n THEN [kind |-> "blocked"]
               ELSE DecodeOutcome(SubSeq(rest, 1, o.n))

(***************************************************************************)
(* Properties of read_response                                             *)
(***************************************************************************)
Finished == rpc \in {"returned", "raised"}

(* the exception classes of Python that are ConnectionError or derive from it *)
ConnectionErrorNames ==
    {"ConnectionError", "ConnectionResetError", "ConnectionAbortedError",
     "ConnectionRefusedError", "BrokenPipeError"}

(* the names of the header fields in the block that ends at the first \r\n\r\n *)
FieldNames(stream) ==
    LET block == SubSeq(stream, 1, Find(stream, Terminator) - 1)
        lines == Split(block, CRLF)
    IN {SubSeq(lines[i], 1, Find(lines[i], <<":">>) - 1) :
            i \in {j \in 1..Len(lines) : Find(lines[j], <<":">>) # 0}}

ContentLengthName == SubSeq(Key, 1, Len(Key) - 2)

(* C3: once a recv has reported the end of the stream (the peer closed     *)
(* while a header or a body was still incomplete), read_response has       *)
(* failed with a ConnectionError; it is not still reading.                 *)
C3_ClosedMidReadRaisesConnectionError ==
    emptyReads > 0 => (rpc = "raised" /\ result.error \in ConnectionErrorNames)

(* C4: read_response returns no message when the header block has no       *)
(* Content-Length field or when the body of the announced length is not    *)
(* JSON; it fails instead.                                                 *)
C4_MalformedFrameIsNotReturned ==
    rpc = "returned" =>
        /\ ContentLengthName \in FieldNames(Streams[frame])
        /\ DecodeOutcome(body) = result
        /\ Len(body) = content_length

(* C10: whatever the sizes of the chunks in which the bytes arrive and are *)
(* read, read_response ends with the outcome it has when the whole stream  *)
(* is in the buffer at the first read: the same message for a well-formed  *)
(* frame, the same exception for a malformed one.                          *)
C10_ReadSizeIndependent ==
    (Finished /\ ~(rpc = "raised" /\ result.error = "ConnectionResetError"))
        => result = OneShot(Streams[frame])

(* a nested message has been returned after every byte was read by a recv  *)
(* call of its own                                                         *)
C10_Witness ==
    /\ rpc = "returned"
    /\ Streams[frame] = FrameNested
    /\ result = OneShot(FrameNested)
    /\ Len(recvSizes) = Len(FrameNested)
    /\ \A i \in 1..Len(recvSizes) : recvSizes[i] = 1
    /\ wire = <<>> /\ avail = <<>>

(***************************************************************************)
(* Byte level: the frame send_request writes, lines 22-38.                 *)
(* A text is a sequence of characters.  An ASCII character is the          *)
(* one-character string; a character outside ASCII is written U+ and its   *)
(* code point.  A byte outside ASCII is written 0x and its value.          *)
(* A value handed to json.dumps is tagged with its Python type; a dict     *)
(* keeps its items in insertion order.                                     *)
(***************************************************************************)
NonAscii == {"U+00E9", "U+20AC", "U+1F600"}

(* ord(c) of the characters outside ASCII *)
CodePoint(c) ==
    CASE c = "U+00E9"  -> 233
      [] c = "U+20AC"  -> 8364
      [] c = "U+1F600" -> 128512

HexLower == <<"0","1","2","3","4","5","6","7","8","9","a","b","c","d","e","f">>
HexUpper == <<"0","1","2","3","4","5","6","7","8","9","A","B","C","D","E","F">>

(* the last w hexadecimal digits of n, as characters *)
RECURSIVE HexText(_, _)
HexText(n, w) ==
    IF w = 0 THEN <<>> ELSE HexText(n \div 16, w - 1) \o <<HexLower[(n % 16) + 1]>>

(* the byte of value n *)
ByteOf(n) == "0x" \o HexUpper[(n \div 16) + 1] \o HexUpper[(n % 16) + 1]

(* \uXXXX *)
UEscape(n) == <<"\\", "u">> \o HexText(n, 4)

EscapeCharRaw(c) == <<c>>

(* json.dumps of one character of a string, ensure_ascii being True (the   *)
(* default, line 30): a character outside ASCII becomes \uXXXX, above the  *)
(* basic plane a surrogate pair                                            *)
EscapeChar(c) ==
    IF c \in NonAscii
    THEN LET cp == CodePoint(c)
         IN IF cp < 65536 THEN UEscape(cp)
            ELSE UEscape(55296 + ((cp - 65536) \div 1024))
                     \o UEscape(56320 + ((cp - 65536) % 1024))
    ELSE IF c = "\"" THEN <<"\\", "\"">>
    ELSE IF c = "\\" THEN <<"\\", "\\">>
    ELSE IF c = "\n" THEN <<"\\", "n">>
    ELSE IF c = "\r" THEN <<"\\", "r">>
    ELSE IF c = "\t" THEN <<"\\", "t">>
    ELSE <<c>>

RECURSIVE EscapeText(_)
EscapeText(text) ==
    IF text = <<>> THEN <<>>
    ELSE IF Len(text) = 1 THEN EscapeChar(text[1])
    ELSE LET half == Len(text) \div 2
         IN EscapeText(SubSeq(text, 1, half)) \o EscapeText(Drop(text, half))

(* str(n) for n >= 0, also the f-string conversion at line 33 *)
RECURSIVE Decimal(_)
Decimal(n) ==
    IF n < 10 THEN <<DigitChars[n + 1]>>
    ELSE Decimal(n \div 10) \o <<DigitChars[(n % 10) + 1]>>

(* json.dumps(value), line 30, with the default separators ", " and ": " *)
RECURSIVE JsonDumps(_), DumpItems(_), DumpElements(_)
JsonDumps(value) ==
    CASE value.t = "None" -> <<"n","u","l","l">>
      [] value.t = "bool" -> IF value.v THEN <<"t","r","u","e">> ELSE <<"f","a","l","s","e">>
      [] value.t = "int"  -> IF value.v < 0 THEN <<"-">> \o Decimal(0 - value.v)
                                             ELSE Decimal(value.v)
      [] value.t = "str"  -> <<"\"">> \o EscapeText(value.v) \o <<"\"">>
      [] value.t = "list" -> <<"[">> \o DumpElements(value.v) \o <<"]">>
      [] value.t = "dict" -> <<"{">> \o DumpItems(value.items) \o <<"}">>

DumpItems(items) ==
    IF items = <<>> THEN <<>>
    ELSE <<"\"">> \o EscapeText(Head(items).k) \o <<"\"", ":", " ">>
             \o JsonDumps(Head(items).v)
             \o (IF Len(items) > 1 THEN <<",", " ">> ELSE <<>>)
             \o DumpItems(Tail(items))

DumpElements(elements) ==
    IF elements = <<>> THEN <<>>
    ELSE JsonDumps(Head(elements))
             \o (IF Len(elements) > 1 THEN <<",", " ">> ELSE <<>>)
             \o DumpElements(Tail(elements))

(* the UTF-8 bytes of one character *)
Utf8Bytes(c) ==
    IF c \notin NonAscii THEN <<c>>
    ELSE LET cp == CodePoint(c)
         IN IF cp < 2048
            THEN <<ByteOf(192 + (cp \div 64)), ByteOf(128 + (cp % 64))>>
            ELSE IF cp < 65536
            THEN <<ByteOf(224 + (cp \div 4096)), ByteOf(128 + ((cp \div 64) % 64)),
                   ByteOf(128 + (cp % 64))>>
            ELSE <<ByteOf(240 + (cp \div 262144)), ByteOf(128 + ((cp \div 4096) % 64)),
                   ByteOf(128 + ((cp \div 64) % 64)), ByteOf(128 + (cp % 64))>>

(* text.encode("utf-8"), lines 31 and 35 *)
RECURSIVE Utf8Encode(_)
Utf8Encode(text) ==
    IF text = <<>> THEN <<>>
    ELSE IF Len(text) = 1 THEN Utf8Bytes(text[1])
    ELSE LET half == Len(text) \div 2
         IN Utf8Encode(SubSeq(text, 1, half)) \o Utf8Encode(Drop(text, half))

PyNone == [t |-> "None"]
PyBool(b) == [t |-> "bool", v |-> b]
PyInt(n) == [t |-> "int", v |-> n]
PyStr(text) == [t |-> "str", v |-> text]
PyList(elements) == [t |-> "list", v |-> elements]
PyDict(items) == [t |-> "dict", items |-> items]
Item(k, v) == [k |-> k, v |-> v]

(* The calls of send_request the model makes; each with and without wait_for_response. *)

(* configuration_done(): no arguments *)
CallConfigurationDone ==
    [command |-> <<"c","o","n","f","i","g","u","r","a","t","i","o","n","D","o","n","e">>,
     arguments |->
        PyNone]

(* an empty dict as arguments *)
CallThreads ==
    [command |-> <<"t","h","r","e","a","d","s">>,
     arguments |->
        PyDict(<<>>)]

(* get_variables(55) *)
CallVariables ==
    [command |-> <<"v","a","r","i","a","b","l","e","s">>,
     arguments |->
        PyDict(<<Item(<<"v","a","r","i","a","b","l","e","s","R","e","f","e","r","e","n","c","e">>, PyInt(55))>>)]

(* set_breakpoints("demo/main.py", [99]) from /work *)
CallSetBreakpoints ==
    [command |-> <<"s","e","t","B","r","e","a","k","p","o","i","n","t","s">>,
     arguments |->
        PyDict(<<Item(<<"s","o","u","r","c","e">>, PyDict(<<Item(<<"p","a","t","h">>, PyStr(<<"/","w","o","r","k","/","d","e","m","o","/","m","a","i","n",".","p","y">>))>>)),
        Item(<<"b","r","e","a","k","p","o","i","n","t","s">>, PyList(<<PyDict(<<Item(<<"l","i","n","e">>, PyInt(99))>>)>>))>>)]

(* the attach request of initialize_session *)
CallAttach ==
    [command |-> <<"a","t","t","a","c","h">>,
     arguments |->
        PyDict(<<Item(<<"c","o","n","n","e","c","t">>, PyDict(<<Item(<<"h","o","s","t">>, PyStr(<<"l","o","c","a","l","h","o","s","t">>)),
        Item(<<"p","o","r","t">>, PyInt(5678))>>)),
        Item(<<"p","a","t","h","M","a","p","p","i","n","g","s">>, PyList(<<>>)),
        Item(<<"j","u","s","t","M","y","C","o","d","e">>, PyBool(FALSE))>>)]

(* an argument with characters of 2, 3 and 4 UTF-8 bytes, a quote, a backslash and a newline *)
CallEvaluate ==
    [command |-> <<"e","v","a","l","u","a","t","e">>,
     arguments |->
        PyDict(<<Item(<<"e","x","p","r","e","s","s","i","o","n">>, PyStr(<<"U+00E9","U+20AC","U+1F600","\"","\\","\n">>)),
        Item(<<"f","r","a","m","e","I","d">>, PyNone)>>)]

WriterCalls ==
    {CallConfigurationDone,
     CallThreads,
     CallVariables,
     CallSetBreakpoints,
     CallAttach,
     CallEvaluate}

(* `arguments or {}`, line 26: None and the empty dict are both falsy *)
ArgumentsOrEmpty(arguments) ==
    IF arguments.t = "None" \/ (arguments.t = "dict" /\ arguments.items = <<>>)
    THEN PyDict(<<>>)
    ELSE arguments

(* lines 22-27 *)
BuildRequest(s, command, arguments) ==
    PyDict(<<Item(<<"s","e","q">>, PyInt(s)),
             Item(<<"t","y","p","e">>, PyStr(<<"r","e","q","u","e","s","t">>)),
             Item(<<"c","o","m","m","a","n","d">>, PyStr(command)),
             Item(<<"a","r","g","u","m","e","n","t","s">>, ArgumentsOrEmpty(arguments))>>)

ContentLengthPlusOne(message) == Len(Utf8Encode(message)) + 1

(* line 31: len(message.encode("utf-8")) *)
ContentLength(message) == Len(Utf8Encode(message))

(* line 33: f"Content-Length: {content_length}\r\n\r\n{message}" *)
FullMessage(n, message) == Key \o Decimal(n) \o Terminator \o message

(* the numbers of bytes socket.send may accept of n offered, line 35 *)
SendAccepts(n) == 1..n

WriterIdle ==
    UNCHANGED <<pc, sock, proc, awaiting, response, frame_id, scopes, scope_idx, exc,
                wireVars, trace, lastRet, skipped, hung, closeCount, termCount, waitCount,
                readVars, batchVars, mainVars, callsVars, call>>

(* lines 22-33: the request, the counter, the frame *)
WriterBuild ==
    /\ wpc = "build"
    /\ request' = BuildRequest(seq, call.command, call.arguments)
    /\ seq' = NextSeq(seq)
    /\ built' = Append(built, seq)
    /\ LET message == JsonDumps(request')
       IN full_message' = Utf8Encode(FullMessage(ContentLength(message), message))
    /\ wpc' = "send"
    /\ UNCHANGED handed
    /\ WriterIdle

(* lines 35-38: one socket.send, whose return value is dropped; then the   *)
(* return of None or the read loop.  send raises when the connection is    *)
(* broken.                                                                 *)
WriterSend ==
    /\ wpc = "send"
    /\ \/ \E k \in SendAccepts(Len(full_message)) :
             /\ handed' = SubSeq(full_message, 1, k)
             /\ wpc' = IF ReadsAfterSend(call.wait_for_response) THEN "reading" ELSE "returned"
       \/ /\ handed' = <<>>
          /\ wpc' = "raised"
    /\ UNCHANGED <<seq, built, request, full_message>>
    /\ WriterIdle

(* send_request is called once on a connected client *)
InitWriter ==
    /\ pc = "idle" /\ sock = "connected" /\ proc = "none"
    /\ ClientIdle
    /\ ReadIdle /\ BatchIdle /\ MainIdle /\ CallsIdle
    /\ wpc = "build"
    /\ \E c \in WriterCalls, w \in BOOLEAN :
          call = [command |-> c.command, arguments |-> c.arguments, wait_for_response |-> w]
    /\ request = PyNone /\ full_message = <<>> /\ handed = <<>>

NextWriter ==
    \/ WriterBuild
    \/ WriterSend

SpecWriter == InitWriter /\ [][NextWriter]_vars

(***************************************************************************)
(* Properties of the write                                                 *)
(***************************************************************************)
Built == wpc \in {"send", "reading", "returned", "raised"}

(* C11: once the frame is built, the number its Content-Length header      *)
(* carries is the number of bytes that follow the \r\n\r\n terminator, and *)
(* those bytes are the UTF-8 encoding of the serialized request.           *)
C11_ContentLengthIsByteLength ==
    Built =>
        LET t == Find(full_message, Terminator)
            hdr == SubSeq(full_message, 1, t + Len(Terminator) - 1)
            payload == Drop(full_message, t + Len(Terminator) - 1)
            o == HeaderOutcome(hdr)
        IN /\ t # 0
           /\ o.kind = "length"
           /\ o.n = Len(payload)
           /\ payload = Utf8Encode(JsonDumps(request))
           /\ hdr = Utf8Encode(Key \o Decimal(Len(payload)) \o Terminator)

(* a request whose argument has more UTF-8 bytes than characters was written in full *)
C11_Witness ==
    /\ wpc = "returned"
    /\ call.arguments = CallEvaluate.arguments
    /\ LET text == CallEvaluate.arguments.items[1].v.v
       IN Len(Utf8Encode(text)) > Len(text)
    /\ handed = full_message

(* C16: when send_request returns or starts to read, every byte of the     *)
(* frame has been handed to the stream.                                    *)
C16_WriteIsComplete ==
    wpc \in {"reading", "returned"} => handed = full_message

(***************************************************************************)
(* Further properties of the handshake                                     *)
(***************************************************************************)

(* C12: the driver sends no request while an earlier request sent with     *)
(* wait_for_response=True has not returned: between an awaited send and    *)
(* any later send lies the return of the awaited one, and the request      *)
(* being awaited is always the last one sent.                              *)
C12_OneAwaitedRequestOutstanding ==
    /\ \A i, j \in 1..Len(trace) :
          (i < j /\ IsSend(trace[i]) /\ IsSend(trace[j]) /\ WaitsForResponse(trace[i].name))
              => \E k \in (i + 1)..(j - 1) : trace[k] = ResponseOf(trace[i].name)
    /\ awaiting # NoCmd =>
          /\ Sends # <<>>
          /\ LastOf(Sends) = SendOf(awaiting)
          /\ out[Len(out)].command = awaiting
          /\ LastOf(trace) = SendOf(awaiting)

(* the seventh request is awaited after the six before it were sent and the *)
(* five awaited ones among them returned                                    *)
C12_Witness ==
    /\ awaiting = "variables"
    /\ Len(out) = Len(HandshakeOrder) + 1
    /\ \A c \in {"initialize", "setBreakpoints", "configurationDone", "stackTrace", "scopes"} :
          \E k \in 1..Len(trace) : trace[k] = ResponseOf(c)

(* the steps the client takes by itself, an interruption aside *)
ClientStep ==
    \/ Popen \/ Sleep \/ Connect \/ CallSendRequest \/ AwaitResponse \/ WaitEvent
    \/ Except \/ FinallyClose \/ FinallyTerminate \/ FinallyWait

(* the event name each wait loop compares with, lines 113 and 195 *)
WaitedName == [p \in WaitPCs |-> IF p = "wait_initialized" THEN "initialized" ELSE "stopped"]

(* what a step taken during a wait may do *)
WaitLeftOnlyByItsEvent ==
    pc \in WaitPCs =>
        /\ (pc' \notin {pc, "except", "finally_close"}) =>
              /\ inbox # <<>>
              /\ Get(Head(inbox), "type") = "event"
              /\ Get(Head(inbox), "event") = WaitedName[pc]
              /\ response' = Head(inbox)
              /\ inbox' = Tail(inbox)
              /\ pc' = (IF pc = "wait_initialized" THEN "setBreakpoints" ELSE "stackTrace")
        /\ (pc' = "except") => (inbox # <<>> /\ IsBad(Head(inbox)))
        /\ (pc' = "finally_close") =>
              LastOf(trace') = [op |-> "raise", name |-> "KeyboardInterrupt"]
        /\ (pc' = pc /\ response' # response) =>
              /\ response' = Head(inbox)
              /\ inbox' = Tail(inbox)
              /\ ~(Get(Head(inbox), "type") = "event"
                    /\ Get(Head(inbox), "event") = WaitedName[pc])
        /\ out' = out /\ built' = built

(* C13: a wait for event E is left forward only by reading a message with  *)
(* type "event" and event E, which the loop keeps as response; any other   *)
(* message it reads is dropped and the wait goes on; apart from that the   *)
(* wait is left only by a read that raises or by an interruption.  There   *)
(* is no timeout: with nothing to read the client has no step to take.     *)
C13_WaitEndsOnlyOnItsEvent ==
    /\ [][WaitLeftOnlyByItsEvent]_vars
    /\ []((pc \in WaitPCs /\ inbox = <<>>) => ~ENABLED ClientStep)

(* the wait for initialized has ended on its event; the wait for stopped   *)
(* has read an output event, dropped it, and is waiting with nothing to    *)
(* read                                                                    *)
C13_Witness ==
    /\ pc = "wait_stopped"
    /\ Get(response, "type") = "event" /\ Get(response, "event") = "output"
    /\ \E k \in 1..Len(trace) : trace[k] = EventOf("initialized")
    /\ inbox = <<>>
    /\ "stopped" \notin emitted

(* C14: once send_request has returned a response to setBreakpoints or     *)
(* configurationDone whose success is false, the driver is in the error    *)
(* path or the teardown, and the failed request is the last one sent.      *)
C14_FailedResponseIsFatal ==
    (/\ lastRet.command \in {"setBreakpoints", "configurationDone"}
     /\ Get(lastRet.message, "success") = FALSE)
        => /\ pc \in {"except"} \cup FinalPCs \cup EndPCs
           /\ out[Len(out)].command = lastRet.command

(* C15: start_debug_session is never left by an exception for a failure of *)
(* the session: whatever was raised by the launch, the connect, a read or  *)
(* a response was printed by the except clause, and the call returns.      *)
(* (An interruption by the user is not counted as a failure.)              *)
C15_NoFailureEscapes ==
    pc = "raised" => exc = "KeyboardInterrupt"

(***************************************************************************)
(* DAPClient.set_breakpoints called on a connected client with any file    *)
(* and any list of lines, lines 118-127.                                   *)
(***************************************************************************)
MaxBreakpointCalls == 2   \* calls of set_breakpoints

BreakpointFiles ==
    {TargetFile,
     [absolute |-> TRUE, parts |-> <<"abs", "path", "main.py">>],
     [absolute |-> TRUE, parts |-> <<"abs", ".", "path", "..", "path", "main.py">>]}

BreakpointLines == {<<>>, <<10, 20>>, <<20, 10, 10>>}

SetBreakpoints ==
    /\ pc = "idle"
    /\ awaiting = NoCmd
    /\ Len(built) < MaxBreakpointCalls
    /\ \E file_path \in BreakpointFiles : \E lines \in BreakpointLines :
          /\ call' = [file_path |-> file_path, lines |-> lines, n |-> Len(built) + 1]
          /\ SendRequest("setBreakpoints", SetBreakpointsArgs(file_path, lines), TRUE, "idle")
    /\ UNCHANGED <<sock, proc, response, frame_id, scopes, scope_idx>>
    /\ UNCHANGED <<closeCount, termCount, waitCount>>
    /\ UNCHANGED <<readVars, batchVars, mainVars, callsVars, wpc, request, full_message, handed>>

(* the peer answers a setBreakpoints request, with success or without *)
BreakpointsRespond ==
    /\ PeerCanEmit
    /\ \E rseq \in 1..Len(built) : \E success \in BOOLEAN :
          inbox' = Append(inbox, Resp(rseq, "setBreakpoints", success,
                                      IF success THEN EmptyDict ELSE ErrorBody))
    /\ UNCHANGED <<out, eof, answered, emitted>>
    /\ UNCHANGED <<clientVars, histVars, byteVars>>

NextBreakpoints ==
    \/ SetBreakpoints
    \/ AwaitResponse
    \/ ReadOnClosedStream
    \/ BreakpointsRespond
    \/ AdapterClose

SpecBreakpoints == InitAPI /\ [][NextBreakpoints]_vars

Called == "file_path" \in DOMAIN call
Dotless(parts) == \A i \in 1..Len(parts) : parts[i] \notin {".", "..", ""}

(* every call built one request, and the request of the last call is the   *)
(* last one written, with one {line} entry per line in the order given     *)
OneRequestWithTheLines ==
    /\ Len(built) = call.n
    /\ pc # "raised" =>
          LET r == out[Len(out)]
          IN /\ Len(out) = call.n
             /\ r.command = "setBreakpoints"
             /\ r.seq = built[call.n]
             /\ DOMAIN r.arguments = {"source", "breakpoints"}
             /\ Len(r.arguments.breakpoints) = Len(call.lines)
             /\ \A i \in 1..Len(call.lines) :
                   r.arguments.breakpoints[i] = [line |-> call.lines[i]]

(* C17 as stated: one request per call with the lines in order, and the    *)
(* path of the request is absolute and is the path given whenever that is  *)
(* already absolute.                                                       *)
C17_AbsolutePathUnchanged ==
    Called =>
        /\ OneRequestWithTheLines
        /\ pc # "raised" =>
              LET path == out[Len(out)].arguments.source.path
              IN /\ path.absolute
                 /\ call.file_path.absolute => path = call.file_path

(* C17, amended: one request per call with the lines in order; the path of *)
(* the request is absolute and has no ".", ".." or empty component; it is  *)
(* the path given when that is absolute and has no such component, and the *)
(* working directory followed by the path given when that is relative and  *)
(* has no such component.                                                  *)
C17_AbsoluteNormalisedPath ==
    Called =>
        /\ OneRequestWithTheLines
        /\ pc # "raised" =>
              LET path == out[Len(out)].arguments.source.path
                  given == call.file_path
              IN /\ path.absolute
                 /\ Dotless(path.parts)
                 /\ Dotless(given.parts) =>
                       path.parts = (IF given.absolute THEN given.parts
                                     ELSE Cwd \o given.parts)
                 /\ path.parts[Len(path.parts)] = given.parts[Len(given.parts)]

(* the second call, with three lines of which two are equal and a relative *)
(* file, has returned its response                                         *)
C17_Witness ==
    /\ Called
    /\ call.n = 2
    /\ call.lines = <<20, 10, 10>>
    /\ call.file_path = TargetFile
    /\ lastRet.command = "setBreakpoints" /\ lastRet.request = built[2]
    /\ awaiting = NoCmd /\ pc = "idle"

(***************************************************************************)
(* The inspection traversal, lines 189-212                                 *)
(***************************************************************************)
IsResponseTo(m, command) ==
    /\ Get(m, "type") = "response" /\ Get(m, "command") = command
    /\ Get(m, "success") = TRUE
    /\ "body" \in DOMAIN m

StoppedWithThread(m) ==
    /\ Get(m, "type") = "event" /\ Get(m, "event") = "stopped"
    /\ "body" \in DOMAIN m /\ "threadId" \in DOMAIN m.body

GoodStack(m) ==
    /\ IsResponseTo(m, "stackTrace")
    /\ "stackFrames" \in DOMAIN m.body
    /\ m.body.stackFrames # <<>>
    /\ "id" \in DOMAIN m.body.stackFrames[1]

GoodScopes(m) ==
    /\ IsResponseTo(m, "scopes")
    /\ "scopes" \in DOMAIN m.body
    /\ \A i \in 1..Len(m.body.scopes) :
          {"name", "variablesReference"} \subseteq DOMAIN m.body.scopes[i]

GoodVariables(m) ==
    /\ IsResponseTo(m, "variables")
    /\ "variables" \in DOMAIN m.body
    /\ \A i \in 1..Len(m.body.variables) :
          {"name", "value"} \subseteq DOMAIN m.body.variables[i]

Reads == inbox # <<>> /\ inbox' = Tail(inbox)
ClientActs == (exc' # exc \/ built' # built) /\ exc' # "KeyboardInterrupt"
NoRaise == exc' = exc /\ trace' # <<>> /\ LastOf(trace').op # "raise"
CountOf(e) == Cardinality({k \in 1..Len(trace) : trace[k] = e})

(* what the traversal does with each well-formed message and at each send *)
TraversalStep ==
    /\ (pc = "wait_stopped" /\ Reads /\ StoppedWithThread(Head(inbox)))
          => (NoRaise /\ pc' = "stackTrace" /\ response' = Head(inbox))
    /\ (pc \in {"stackTrace", "scopes", "variables"} /\ awaiting = NoCmd /\ ~eof
            /\ StoppedWithThread(response) /\ ClientActs)
          => (NoRaise /\ awaiting' = pc /\ Len(out') = Len(out) + 1
                /\ LastOf(out').command = pc)
    /\ (awaiting = "stackTrace" /\ Reads /\ GoodStack(Head(inbox)))
          => (NoRaise /\ pc' = "scopes" /\ frame_id' = Head(inbox).body.stackFrames[1].id)
    /\ (awaiting = "scopes" /\ Reads /\ GoodScopes(Head(inbox)))
          => (NoRaise /\ scopes' = Head(inbox).body.scopes
                /\ pc' = (IF scopes' = <<>> THEN "finally_close" ELSE "variables"))
    /\ (awaiting = "variables" /\ Reads /\ GoodVariables(Head(inbox)))
          => (NoRaise /\ pc' = (IF scope_idx < Len(scopes) THEN "variables"
                                                             ELSE "finally_close"))

(* C18: from a stopped event with a threadId on, no well-formed message    *)
(* and no send on an open connection makes the traversal raise: each takes *)
(* it one step further, and when the driver has come to teardown without   *)
(* an exception it has had the scopes and sent one variables request, and  *)
(* had one answer, per scope.                                              *)
C18_TraversalCompletes ==
    /\ [][TraversalStep]_vars
    /\ []((/\ pc \in FinalPCs \cup {"returned"}
           /\ CountOf(EventOf("stopped")) = 1
           /\ \A k \in 1..Len(trace) : trace[k].op # "raise")
             => /\ CountOf(ResponseOf("stackTrace")) = 1
                /\ CountOf(ResponseOf("scopes")) = 1
                /\ CountOf(SendOf("variables")) = Len(scopes)
                /\ CountOf(ResponseOf("variables")) = Len(scopes))

(* the session has returned after a stop in thread 8, a stack of two       *)
(* frames and two scopes, with the variables of both read                   *)
C18_Witness ==
    /\ pc = "returned" /\ exc = "none"
    /\ StoppedWithThread(response) /\ response.body.threadId = 8
    /\ frame_id = 101
    /\ Len(scopes) = 2
    /\ lastRet.command = "variables"
    /\ CountOf(ResponseOf("variables")) = 2
    /\ \A k \in 1..Len(trace) : trace[k].op # "raise"

-----------------------------------------------------------------------------
(* send_request on a stream that already holds what the peer has sent:     *)
(* a connected client whose socket buffer holds up to MaxArrivals messages *)
(* in arrival order, and a caller making calls in any order.               *)

MaxArrivals == 3

ArrivingMessages ==
    {Resp(1, "variables", TRUE, [variables |-> <<>>]),
     Resp(1, "variables", FALSE, ErrorBody),
     Resp(1, "configurationDone", TRUE, EmptyDict),
     Event("stopped", [reason |-> "breakpoint", threadId |-> 7]),
     Event("output", OutputBody)}

InitAwait ==
    /\ pc = "idle" /\ sock = "connected" /\ proc = "none"
    /\ seq = FirstSeq /\ awaiting = NoCmd /\ response = NoMsg
    /\ frame_id = 0 /\ scopes = <<>> /\ scope_idx = 0 /\ exc = "none"
    /\ out = <<>> /\ eof = FALSE /\ answered = {} /\ emitted = {}
    /\ inbox \in SeqsUpTo(ArrivingMessages, MaxArrivals)
    /\ built = <<>> /\ trace = <<>>
    /\ lastRet = [command |-> NoCmd, request |-> 0, message |-> NoMsg]
    /\ skipped = {} /\ hung = FALSE
    /\ closeCount = 0 /\ termCount = 0 /\ waitCount = 0
    /\ ByteIdle

NextAwait ==
    \/ ApiCall
    \/ AwaitResponse
    \/ ReadOnClosedStream
    \/ AdapterClose

SpecAwait == InitAwait /\ [][NextAwait]_vars

IsTheResponse(m, command) ==
    /\ "type" \in DOMAIN m /\ m.type = "response"
    /\ "command" \in DOMAIN m /\ m.command = command

AwaitStep ==
    /\ (awaiting # NoCmd /\ awaiting' = NoCmd /\ exc' = exc)
          => /\ inbox # <<>>
             /\ IsTheResponse(Head(inbox), awaiting)
             /\ lastRet'.message = Head(inbox)
             /\ lastRet'.command = awaiting
             /\ inbox' = Tail(inbox)
    /\ (awaiting # NoCmd /\ inbox' # inbox)
          => /\ inbox # <<>> /\ inbox' = Tail(inbox)
             /\ IsTheResponse(Head(inbox), awaiting)
                   => (awaiting' = NoCmd /\ lastRet'.message = Head(inbox))
             /\ ~IsTheResponse(Head(inbox), awaiting)
                   => (awaiting' = awaiting /\ lastRet' = lastRet
                         /\ Label(Head(inbox)) \in skipped')
    /\ awaiting = NoCmd => inbox' = inbox

(* C19: each turn of the awaited read takes exactly the oldest message off *)
(* the stream; it returns when, and only when, that message is a response  *)
(* with the command of the call, and what it returns is that very message; *)
(* it passes over any other and goes on waiting; and outside an awaited    *)
(* call nothing is taken off the stream.  So the call returns the first    *)
(* matching response in arrival order and consumes up to and including it. *)
C19_ReturnsFirstMatchUnmodified == [][AwaitStep]_vars

(* an event was passed over, the failed response to variables that came    *)
(* next was returned as it was, and the response behind it is still on the *)
(* stream                                                                  *)
C19_Witness ==
    /\ awaiting = NoCmd /\ exc = "none"
    /\ lastRet.message = Resp(1, "variables", FALSE, ErrorBody)
    /\ [type |-> "event", name |-> "output"] \in skipped
    /\ inbox = <<Resp(1, "variables", TRUE, [variables |-> <<>>])>>

(***************************************************************************)
(* demo/data_processor.py: DataProcessor.batch_process                     *)
(***************************************************************************)
MaxRecords == 3

SecretThreshold == 75          \* _secret_threshold = 0.75, in hundredths

(* A record is a dict.  A score is a number or a string; numbers are taken  *)
(* whole here, so that score * 0.75 + 10 is exact in hundredths and         *)
(* round(..., 2) leaves it as it is.                                        *)
Number(n) == [t |-> "number", v |-> n]
Text(x)   == [t |-> "str", v |-> x]

Records ==
    {[id |-> 1, score |-> Number(86)],
     [id |-> 2, score |-> Number(40)],
     [id |-> 3, score |-> Text("n/a")],
     [id |-> 4, score |-> Number(96), category |-> "C"],
     [name |-> "Eve"]}

(* time.time() *)
Times == {1000, 1001}

(* lines 42-46: the fields process_record adds for a numeric score, in     *)
(* hundredths                                                              *)
Scored(record) ==
    LET normalized_score == record.score.v * SecretThreshold + 1000 IN
    [normalized_score |-> normalized_score,
     meets_threshold  |-> normalized_score > 7000]

(* line 44: `original_score * self._secret_threshold` raises TypeError for *)
(* a score that is a string                                                *)
ProcessRaises(record) == "score" \in DOMAIN record /\ record.score.t # "number"

(* lines 40-51: the copy of the record with the fields added *)
ProcessRecord(record, now) ==
    [processed_at |-> now, processor_id |-> "dp-001"]
        @@ (IF "score" \in DOMAIN record THEN Scored(record) ELSE <<>>)
        @@ record

(* lines 57-59: data[0] and data[1] are read when data is not empty; does  *)
(* that raise IndexError?                                                  *)
SecondRecordMissing(d) == d # <<>> /\ Len(d) < 2

BatchOther == UNCHANGED <<clientVars, wireVars, histVars, readVars, writeVars, mainVars, callsVars>>

(* lines 55-62: the print of the first two ids, outside any try *)
BatchEnter ==
    /\ bpc = "called"
    /\ IF SecondRecordMissing(data)
       THEN bpc' = "raised" /\ batch_exc' = "IndexError"
       ELSE bpc' = "loop" /\ batch_exc' = batch_exc
    /\ rec_i' = 0 /\ processed_data' = <<>>
    /\ UNCHANGED <<data, processed_count, error_count>>
    /\ BatchOther

(* lines 63-74: one turn of the loop; process_record counts the record     *)
(* before it can raise, and what it raises is counted and swallowed        *)
BatchRecord ==
    /\ bpc = "loop" /\ rec_i < Len(data)
    /\ LET record == data[rec_i + 1] IN
       /\ processed_count' = processed_count + 1
       /\ IF ProcessRaises(record)
          THEN /\ error_count' = error_count + 1
               /\ processed_data' = processed_data
          ELSE /\ error_count' = error_count
               /\ \E now \in Times :
                     processed_data' = Append(processed_data, ProcessRecord(record, now))
    /\ rec_i' = rec_i + 1
    /\ UNCHANGED <<bpc, data, batch_exc>>
    /\ BatchOther

(* lines 76-77 *)
BatchReturn ==
    /\ bpc = "loop" /\ rec_i = Len(data)
    /\ bpc' = "returned"
    /\ UNCHANGED <<data, rec_i, processed_data, processed_count, error_count, batch_exc>>
    /\ BatchOther

(* batch_process is called once on a new DataProcessor with any list of up *)
(* to MaxRecords records                                                   *)
InitBatch ==
    /\ pc = "idle" /\ sock = "none" /\ proc = "none"
    /\ ClientIdle /\ ReadIdle /\ WriteIdle /\ MainIdle /\ CallsIdle
    /\ bpc = "called"
    /\ data \in SeqsUpTo(Records, MaxRecords)
    /\ rec_i = 0 /\ processed_data = <<>>
    /\ processed_count = 0 /\ error_count = 0 /\ batch_exc = "none"

NextBatch ==
    \/ BatchEnter
    \/ BatchRecord
    \/ BatchReturn

SpecBatch == InitBatch /\ [][NextBatch]_vars

BatchOver == bpc \in {"returned", "raised"}

(* C20: batch_process given an empty list of records raises IndexError.    *)
C20_EmptyListRaisesIndexError ==
    (BatchOver /\ data = <<>>) => (bpc = "raised" /\ batch_exc = "IndexError")

(***************************************************************************)
(* demo/main.py: main                                                      *)
(***************************************************************************)

(* what main.DataProcessor is when main runs: the class of                 *)
(* data_processor.py, or the mock that test_integration.py lines 192-196   *)
(* puts in its place (load_data returns [], batch_process raises           *)
(* IndexError)                                                             *)
Processors == {"DataProcessor", "Mock"}

(* line 53: what load_data returns; the tests patch it to return any list, *)
(* and main allows for None                                                *)
LoadResults(p) ==
    IF p = "Mock" THEN {PyList(<<>>)}
    ELSE {PyNone} \cup {PyList(d) : d \in SeqsUpTo(Records, MaxRecords)}

(* lines 55-56 *)
OrEmptyList(raw) == IF raw = PyNone THEN <<>> ELSE raw.v

(* analyzer.py line 71: is there a category to be top_performer? *)
HasTopPerformer(processed) ==
    \E k \in 1..Len(processed) :
        {"normalized_score", "category"} \subseteq DOMAIN processed[k]

(* line 101: advanced_results.get("top_performer", ...)[0] subscripts None *)
(* when no record has a score and a category                               *)
ReportRaises(processed) == ~HasTopPerformer(processed)

ReturnsNone == "None"

(* lines 117-119: what main does with an exception raised inside its try *)
OnException(e) == [ret |-> ReturnsNone, exc |-> "none"]

MainOther == UNCHANGED <<clientVars, wireVars, histVars, readVars, writeVars, callsVars>>

(* lines 44-53 *)
MainLoad ==
    /\ mpc = "start"
    /\ raw_data' \in LoadResults(processor)
    /\ mpc' = "loaded"
    /\ UNCHANGED <<processor, main_ret, main_exc, batchVars>>
    /\ MainOther

(* lines 55-57: the call of batch_process *)
MainCallBatch ==
    /\ mpc = "loaded"
    /\ data' = OrEmptyList(raw_data)
    /\ IF processor = "Mock"
       THEN bpc' = "raised" /\ batch_exc' = "IndexError"
       ELSE bpc' = "called" /\ batch_exc' = "none"
    /\ mpc' = "batch"
    /\ UNCHANGED <<rec_i, processed_data, processed_count, error_count>>
    /\ UNCHANGED <<processor, raw_data, main_ret, main_exc>>
    /\ MainOther

(* batch_process raised inside the try: lines 117-119 *)
MainExcept ==
    /\ mpc = "batch" /\ bpc = "raised"
    /\ main_ret' = OnException(batch_exc).ret
    /\ main_exc' = OnException(batch_exc).exc
    /\ mpc' = IF main_exc' = "none" THEN "returned" ELSE "raised"
    /\ UNCHANGED <<processor, raw_data, batchVars>>
    /\ MainOther

(* lines 59-115 after batch_process returned: the report, or lines 117-119 *)
(* for the TypeError of line 101                                           *)
MainReport ==
    /\ mpc = "batch" /\ bpc = "returned"
    /\ IF ReportRaises(processed_data)
       THEN /\ main_ret' = OnException("TypeError").ret
            /\ main_exc' = OnException("TypeError").exc
       ELSE /\ main_ret' = "final_report"
            /\ main_exc' = "none"
    /\ mpc' = IF main_exc' = "none" THEN "returned" ELSE "raised"
    /\ UNCHANGED <<processor, raw_data, batchVars>>
    /\ MainOther

(* main is called once *)
InitMain ==
    /\ pc = "idle" /\ sock = "none" /\ proc = "none"
    /\ ClientIdle /\ ReadIdle /\ WriteIdle /\ BatchIdle /\ CallsIdle
    /\ mpc = "start" /\ processor \in Processors /\ raw_data = PyNone
    /\ main_ret = "unset" /\ main_exc = "none"

NextMain ==
    \/ MainLoad
    \/ MainCallBatch
    \/ BatchEnter
    \/ BatchRecord
    \/ BatchReturn
    \/ MainExcept
    \/ MainReport

SpecMain == InitMain /\ [][NextMain]_vars

MainOver == mpc \in {"returned", "raised"}

(* C21: when load_data returned an empty list and batch_process raised     *)
(* IndexError, main raises that IndexError to its caller and does not      *)
(* return None.                                                            *)
C21_MainRaisesIndexError ==
    (MainOver /\ raw_data = PyList(<<>>) /\ batch_exc = "IndexError")
        => (mpc = "raised" /\ main_exc = "IndexError" /\ main_ret # ReturnsNone)

(***************************************************************************)
(* The handshake: what becomes of the messages a wait passes over          *)
(***************************************************************************)
PassesOver == awaiting # NoCmd /\ skipped' # skipped

PassedOverIsDropped ==
    PassesOver =>
        /\ inbox # <<>> /\ inbox' = Tail(inbox)
        /\ Label(Head(inbox)) \in skipped'
        /\ response' = response /\ lastRet' = lastRet /\ trace' = trace
        /\ awaiting' = awaiting

(* C22: a message an awaited send_request reads and passes over leaves the *)
(* stream and goes nowhere: it is not put back, not returned and not       *)
(* handed to the caller.  A stopped event passed over in that way is in no *)
(* later read: it is not in the stream, no wait loop holds it, and the     *)
(* wait for stopped has not ended.                                         *)
C22_PassedOverNeverReplayed ==
    /\ [][PassedOverIsDropped]_vars
    /\ [](StoppedLabel \in skipped =>
            /\ \A k \in 1..Len(inbox) : Label(inbox[k]) # StoppedLabel
            /\ Label(response) # StoppedLabel
            /\ Label(lastRet.message) # StoppedLabel
            /\ pc \in {"configurationDone", "wait_stopped"} \cup AbortedPCs
            /\ \A k \in 1..Len(trace) : trace[k] # EventOf("stopped"))

(* the stopped event was passed over by the wait for the configurationDone *)
(* response, and the wait loop for stopped has since read the late attach  *)
(* response and is waiting on an empty stream                              *)
C22_Witness ==
    /\ pc = "wait_stopped" /\ StoppedLabel \in skipped
    /\ Label(response) = [type |-> "response", name |-> "attach"]
    /\ inbox = <<>> /\ ~eof /\ ~hung

(***************************************************************************)
(* The bare client: correlation                                            *)
(***************************************************************************)
ReadsHead == inbox # <<>> /\ Len(inbox') < Len(inbox)

ReturnsByCommandName ==
    (/\ awaiting # NoCmd /\ ReadsHead
     /\ IsTheResponse(Head(inbox), awaiting)
     /\ Head(inbox).request_seq # built[Len(built)])
        => /\ awaiting' = NoCmd /\ exc' = exc
           /\ lastRet'.message = Head(inbox)
           /\ lastRet'.request = built[Len(built)]

(* C23: an awaited send_request that reads a response with the command of  *)
(* its request returns it even when its request_seq is not the seq of the  *)
(* request just written: request_seq plays no part.                        *)
C23_CorrelatesByCommandOnly == [][ReturnsByCommandName]_vars

(* variables was sent fire-and-forget with seq 1, then sent again awaited  *)
(* with seq 2, and the call returned the response to the first             *)
C23_Witness ==
    /\ trace = <<SendOf("variables"), SendOf("variables"), ResponseOf("variables")>>
    /\ lastRet.command = "variables"
    /\ lastRet.request = 2
    /\ lastRet.message.request_seq = 1

(***************************************************************************)
(* The handshake: the handles of the inspection                            *)
(***************************************************************************)
IsVariablesRequest(r) == r.command = "variables"
VariablesRequests == SelectSeq(out, IsVariablesRequest)

Writes == Len(out') = Len(out) + 1

HandleStep ==
    /\ (Writes /\ LastOf(out').command = "stackTrace")
          => /\ LastOf(trace) = EventOf("stopped")
             /\ StoppedWithThread(response)
             /\ LastOf(out').arguments = [threadId |-> response.body.threadId]
    /\ (Writes /\ LastOf(out').command = "scopes")
          => /\ LastOf(trace) = ResponseOf("stackTrace")
             /\ lastRet.command = "stackTrace"
             /\ LastOf(out').arguments =
                    [frameId |-> lastRet.message.body.stackFrames[1].id]
    /\ (Writes /\ LastOf(out').command = "variables")
          => /\ LastOf(trace) \in {ResponseOf("scopes"), ResponseOf("variables")}
             /\ Len(VariablesRequests) < Len(scopes)
    /\ (awaiting = "scopes" /\ lastRet' # lastRet /\ exc' = exc)
          => scopes' = lastRet'.message.body.scopes
    /\ (pc = "variables" /\ exc' \notin {exc, "none"})
          => pc' \in AbortedPCs
    /\ (pc \in AbortedPCs \/ scopes # <<>>) => scopes' = scopes
    /\ pc \in AbortedPCs => out' = out

(* C24: the stackTrace request carries the threadId of the stopped event   *)
(* that ended the wait, the scopes request the id of the first frame of    *)
(* the stackTrace response, and the j-th variables request the             *)
(* variablesReference of the j-th scope of the scopes response, with at    *)
(* most one request per scope; an exception at a variables request ends    *)
(* the traversal, so the remaining scopes get no request.                  *)
C24_HandlesFlowUnchanged ==
    /\ [][HandleStep]_vars
    /\ [](\A j \in 1..Len(VariablesRequests) :
             /\ j <= Len(scopes)
             /\ VariablesRequests[j].arguments =
                    [variablesReference |-> scopes[j].variablesReference])

(* both scopes had their variables request, with 55 then 56 or 56 then 55  *)
(* as the scopes response listed them, after a stop in thread 8 and a      *)
(* stack whose first frame is 101; nothing raised                          *)
C24_Witness ==
    /\ pc = "returned"
    /\ Len(scopes) = 2 /\ Len(VariablesRequests) = 2
    /\ VariablesRequests[2].arguments.variablesReference = scopes[2].variablesReference
    /\ \E k \in 1..Len(out) : out[k].command = "stackTrace" /\ out[k].arguments.threadId = 8
    /\ \E k \in 1..Len(out) : out[k].command = "scopes" /\ out[k].arguments.frameId = 101
    /\ \A k \in 1..Len(trace) : trace[k].op # "raise"

(* the variables request of the first of two scopes failed and the session *)
(* ended without a request for the second                                  *)
C24_ErrorWitness ==
    /\ pc = "returned"
    /\ Len(scopes) = 2 /\ Len(VariablesRequests) = 1
    /\ \E k \in 1..Len(trace) : trace[k] = [op |-> "raise", name |-> "KeyError"]

(***************************************************************************)
(* read_response called several times on one stream of frames              *)
(***************************************************************************)
MaxFrames == 2

(* Content-Length: 2\r\n\r\n{} *)
FrameEmptyObject == Key \o <<"2">> \o Terminator \o <<"{", "}">>

(* Content-Length: 2\r\n\r\n[] *)
FrameEmptyArray == Key \o <<"2">> \o Terminator \o <<"[", "]">>

WellFormedFrames == {FrameEmptyObject, FrameEmptyArray, FramePlain}

RECURSIVE Concat(_)
Concat(frames) ==
    IF frames = <<>> THEN <<>> ELSE Head(frames) \o Concat(Tail(frames))

(* the caller takes what read_response returned and, while frames are      *)
(* still to come, calls it again: headers and body start empty (lines 55   *)
(* and 64)                                                                 *)
ReadAgain ==
    /\ rpc \in {"returned", "raised"}
    /\ results' = Append(results, result)
    /\ rpc' = IF rpc = "returned" /\ Len(results') < Len(sent) THEN "headers" ELSE "done"
    /\ headers' = <<>> /\ body' = <<>> /\ content_length' = 0
    /\ recvSizes' = <<>>
    /\ UNCHANGED <<wire, avail, peer, result, frame, emptyReads, sent>>
    /\ UNCHANGED <<clientVars, wireVars, histVars, writeVars, batchVars, mainVars>>

(* the peer sends up to MaxFrames well-formed frames, which arrive in      *)
(* chunks of any size                                                      *)
InitReads ==
    /\ pc = "idle" /\ sock = "connected" /\ proc = "none"
    /\ ClientIdle
    /\ WriteIdle /\ BatchIdle /\ MainIdle
    /\ sent \in SeqsUpTo(WellFormedFrames, MaxFrames) \ {<<>>}
    /\ results = <<>>
    /\ frame = 0
    /\ wire = Concat(sent) /\ avail = <<>> /\ peer = "open"
    /\ rpc = "headers" /\ headers = <<>> /\ body = <<>> /\ content_length = 0
    /\ result = [kind |-> "none"] /\ emptyReads = 0 /\ recvSizes = <<>>

NextReads ==
    \/ Deliver
    \/ RecvHeader
    \/ ParseHeader
    \/ RecvBody
    \/ Decode
    \/ ReadAgain

SpecReads == InitReads /\ [][NextReads]_vars

(* the bytes of the stream after its first n frames *)
After_n(n) == Concat(SubSeq(sent, n + 1, Len(sent)))

(* C25: the j-th read_response call returns the message of the j-th frame, *)
(* and when a call returns it has taken from the stream the bytes of its   *)
(* frame and no other: the header block it read followed by the body it    *)
(* read is the frame, and the stream still holds every byte of the frames  *)
(* behind it, however the bytes were chunked.                              *)
C25_OneFramePerRead ==
    /\ \A j \in 1..Len(results) : results[j] = OneShot(sent[j])
    /\ Len(results) <= Len(sent)
    /\ rpc \in {"returned", "raised"} =>
          /\ rpc = "returned"
          /\ result = OneShot(sent[Len(results) + 1])
          /\ headers \o body = sent[Len(results) + 1]
          /\ avail \o wire = After_n(Len(results) + 1)
    /\ rpc = "done" =>
          /\ Len(results) = Len(sent)
          /\ avail = <<>> /\ wire = <<>>
    /\ Reading => \E k \in 0..Len(sent[Len(results) + 1]) :
          /\ headers \o body = SubSeq(sent[Len(results) + 1], 1, k)
          /\ avail \o wire =
                SubSeq(sent[Len(results) + 1], k + 1, Len(sent[Len(results) + 1]))
                   \o After_n(Len(results) + 1)

(* the first call has returned {"a":1}, its body read in more than one     *)
(* recv, while bytes of the second frame were already in the receive       *)
(* buffer: they are still there                                            *)
C25_Witness ==
    /\ rpc = "returned"
    /\ sent = <<FramePlain, FrameEmptyArray>>
    /\ results = <<>>
    /\ result = OneShot(FramePlain)
    /\ Len(recvSizes) > Len(FramePlain) - 7 + 1
    /\ avail # <<>> /\ wire = <<>>

(* both calls have returned, {} then [] *)
C25_BothWitness ==
    /\ rpc = "done"
    /\ sent = <<FrameEmptyObject, FrameEmptyArray>>
    /\ results = <<OneShot(FrameEmptyObject), OneShot(FrameEmptyArray)>>
    /\ results[1] # results[2]

(***************************************************************************)
(* The frame send_request writes, read by read_response                    *)
(***************************************************************************)

(* The value json.loads gives for the text json.dumps gives for a value,   *)
(* were the two inverse: a dict compares by its keys and values, not by    *)
(* the order of its items.                                                 *)
RECURSIVE AsLoaded(_), ItemsAsLoaded(_, _)
AsLoaded(value) ==
    CASE value.t = "dict" -> [t |-> "dict", v |-> ItemsAsLoaded(value.items, <<>>)]
      [] value.t = "list" -> [t |-> "list",
                              v |-> [i \in 1..Len(value.v) |-> AsLoaded(value.v[i])]]
      [] OTHER            -> value

ItemsAsLoaded(items, d) ==
    IF items = <<>> THEN d
    ELSE ItemsAsLoaded(Tail(items), Put(d, Head(items).k, AsLoaded(Head(items).v)))

SeqKey == <<"s","e","q">>
ArgumentsKey == <<"a","r","g","u","m","e","n","t","s">>

(* C26: read_response, given the bytes send_request built for a request,   *)
(* returns a message equal to the request: same seq, type, command and     *)
(* arguments.                                                              *)
C26_WriteReadInverse ==
    Built => /\ OneShot(full_message) = Returned(AsLoaded(request))
             /\ OneShot(full_message).value.v[SeqKey] = PyInt(built[Len(built)])
             /\ OneShot(full_message).value.v[ArgumentsKey] =
                    AsLoaded(ArgumentsOrEmpty(call.arguments))

(* the evaluate request, whose expression holds characters of two, three   *)
(* and four UTF-8 bytes, a quote, a backslash and a newline, was written   *)
(* whole and reads back with the expression as it was                      *)
C26_Witness ==
    /\ wpc = "reading" /\ handed = full_message
    /\ call.command = CallEvaluate.command
    /\ OneShot(full_message).kind = "returned"
    /\ OneShot(full_message).value.v[ArgumentsKey].v[<<"e","x","p","r","e","s","s","i","o","n">>]
          = PyStr(<<"U+00E9", "U+20AC", "U+1F600", "\"", "\\", "\n">>)

(***************************************************************************)
(* The handshake with a debuggee that honours its contract, under fair     *)
(* delivery: every request is answered exactly once and with success and   *)
(* a well-formed body, initialized is emitted once after attach arrived,   *)
(* stopped (with its threadId) once after configurationDone arrived, in    *)
(* any order relative to the responses; nothing is lost, the stream stays  *)
(* open, the launch and the connect succeed and nobody interrupts.         *)
(***************************************************************************)

(* the bodies of the responses of an adapter that follows the protocol *)
HonestBodies(command) ==
    IF command = "stackTrace"
    THEN {b \in ResponseBodies(command) : b.stackFrames # <<>>}
    ELSE ResponseBodies(command)

HonestRespond ==
    /\ AdapterCanEmit
    /\ \E i \in 1..Len(out) : \E b \in HonestBodies(out[i].command) :
          /\ out[i].seq \notin answered
          /\ answered' = answered \cup {out[i].seq}
          /\ inbox' = Append(inbox, Resp(out[i].seq, out[i].command, TRUE, b))
    /\ UNCHANGED <<out, eof, emitted>>
    /\ UNCHANGED <<clientVars, histVars, byteVars>>

HonestEvent ==
    /\ AdapterEvent
    /\ \A i \in 1..Len(inbox') :
          IsEvent(inbox'[i], "stopped") => "threadId" \in DOMAIN inbox'[i].body

(* the launch and the connect succeed *)
Succeeds == exc' = "none" /\ pc' \notin {"except", "raised"}

LiveClient ==
    \/ Popen /\ Succeeds
    \/ Sleep
    \/ Connect /\ Succeeds
    \/ CallSendRequest
    \/ AwaitResponse
    \/ WaitEvent
    \/ FinallyClose
    \/ FinallyTerminate
    \/ FinallyWait

NextLive ==
    \/ LiveClient
    \/ HonestRespond
    \/ HonestEvent

SpecLive ==
    /\ Init
    /\ [][NextLive]_vars
    /\ WF_vars(LiveClient)
    /\ WF_vars(HonestRespond)
    /\ WF_vars(HonestEvent)

(* the inspection ran: the stopped event was returned by its wait loop and *)
(* the scopes response was returned                                        *)
Inspected ==
    /\ \E k \in 1..Len(trace) : trace[k] = EventOf("stopped")
    /\ \E k \in 1..Len(trace) : trace[k] = ResponseOf("scopes")

(* C27: with a debuggee that honours its contract and fair delivery, the   *)
(* handshake eventually reaches the stopped state, completes the           *)
(* inspection and runs the teardown to its end.                            *)
C27_HandshakeNeverBlocks ==
    <>(pc = "returned" /\ Inspected /\ proc = "reaped")

(* what does hold: the handshake completes in every fair behaviour in      *)
(* which send_request never passes over the stopped event                  *)
CompletesUnlessStoppedPassedOver ==
    <>(StoppedLabel \in skipped) \/ <>(pc = "returned" /\ Inspected /\ proc = "reaped")

(* the handshake is blocked for good: the wait loop for stopped has        *)
(* nothing to read, and the adapter has sent everything it owes            *)
BlockedInWaitStopped ==
    /\ pc = "wait_stopped" /\ inbox = <<>>
    /\ "stopped" \in emitted /\ StoppedLabel \in skipped
    /\ \A i \in 1..Len(out) : out[i].seq \in answered

(***************************************************************************)
(* The handshake: which response an awaited send_request returns.          *)
(***************************************************************************)

AttachResponseLabel == [type |-> "response", name |-> "attach"]

(* the client reads the response to the attach request *)
ReadsAttachResponse ==
    /\ inbox # <<>> /\ inbox' = Tail(inbox)
    /\ ~IsBad(Head(inbox))
    /\ Get(Head(inbox), "type") = "response" /\ Get(Head(inbox), "command") = "attach"

ReturnsAnswerToRequestJustSent ==
    /\ lastRet' # lastRet =>
          /\ lastRet'.message = Head(inbox)
          /\ Get(Head(inbox), "type") = "response"
          /\ Get(Head(inbox), "request_seq") = built[Len(built)]
          /\ out[Len(out)].seq = built[Len(built)]
          /\ out[Len(out)].command = Get(Head(inbox), "command")
          /\ lastRet'.request = built[Len(built)]
    /\ ReadsAttachResponse =>
          /\ lastRet' = lastRet /\ pc' = pc /\ awaiting' = awaiting
          /\ trace' = trace /\ out' = out

(* C28: in the handshake, with an adapter that answers a request at most   *)
(* once, the response an awaited send_request returns has the request_seq  *)
(* of the request it has just written; the response to attach is dropped   *)
(* by the step that reads it and is never returned.                        *)
C28_ReturnsAnswerToRequestJustSent ==
    /\ [][ReturnsAnswerToRequestJustSent]_vars
    /\ [](lastRet.command # NoCmd =>
             /\ lastRet.command # "attach"
             /\ Get(lastRet.message, "request_seq") = lastRet.request)

(* an awaited send_request read the late attach response and passed over   *)
(* it; later the second variables request, the eighth of the handshake,    *)
(* was answered by its own response, every request having been answered    *)
C28_Witness ==
    /\ AttachResponseLabel \in skipped
    /\ Len(out) = Len(HandshakeOrder) + 2
    /\ lastRet.command = "variables" /\ lastRet.request = out[Len(out)].seq
    /\ Get(lastRet.message, "request_seq") = out[Len(out)].seq
    /\ \A i \in 1..Len(out) : out[i].seq \in answered

(***************************************************************************)
(* The handshake: the socket the client writes to and reads from.          *)
(***************************************************************************)

(* send_request is called: a request is built, written or not *)
SendsRequest == built' # built \/ out' # out

(* read_response is called: it takes a frame off the stream, or spins on a *)
(* stream the peer has closed                                              *)
ReadsMessage == Reads \/ (hung' /\ ~hung)

(* the trace entries of a launch or a connect that raised *)
ConnectFailures ==
    {[op |-> "raise", name |-> e] : e \in {"ConnectionRefusedError", "OSError"}}

UsesSocketOnlyWhileConnected ==
    (SendsRequest \/ ReadsMessage) =>
        /\ sock = "connected" /\ sock' = "connected"
        /\ pc \in SendPCs \cup WaitPCs

(* C29: start_debug_session writes a request or reads a message only while *)
(* the socket is connected and not closed: nothing before connect has      *)
(* succeeded, nothing once the teardown has closed the socket; when the    *)
(* connect (or the launch) failed, no request is ever sent and the         *)
(* handshake is not resumed.                                               *)
C29_SocketUsedOnlyWhileConnected ==
    /\ [][UsesSocketOnlyWhileConnected]_vars
    /\ []((trace # <<>> /\ trace[1] \in ConnectFailures) =>
             /\ out = <<>> /\ built = <<>> /\ inbox = <<>>
             /\ sock # "connected"
             /\ pc \in AbortedPCs)
    /\ [](sock = "closed" => pc \in {"finally_terminate", "finally_wait"} \cup EndPCs)
    /\ [](sock \in {"none", "created"} => out = <<>> /\ built = <<>> /\ inbox = <<>>)

(* the connect was refused: the socket that was created has been closed by *)
(* the teardown and the call returned without a request sent               *)
C29_Witness ==
    /\ pc = "returned" /\ sock = "closed" /\ closeCount = 1
    /\ trace = <<[op |-> "raise", name |-> "ConnectionRefusedError"]>>
    /\ out = <<>> /\ built = <<>>

(* the teardown closed the socket with a frame unread and a request        *)
(* unanswered, and the call returned without reading or sending more       *)
C29_ClosedWitness ==
    /\ pc = "returned" /\ sock = "closed"
    /\ inbox # <<>> /\ \E i \in 1..Len(out) : out[i].seq \notin answered

(***************************************************************************)
(* The teardown: the finally clause of start_debug_session.                *)
(***************************************************************************)

TeardownInOrder ==
    /\ closeCount' # closeCount =>
          /\ pc = "finally_close" /\ sock # "none" /\ sock' = "closed"
          /\ termCount = 0 /\ waitCount = 0
          /\ pc' = "finally_terminate"
    /\ termCount' # termCount =>
          /\ pc = "finally_terminate"
          /\ sock # "none" => (sock = "closed" /\ closeCount = 1)
          /\ termCount = 0 /\ waitCount = 0
          /\ proc = "running" /\ proc' = "terminated"
          /\ pc' = "finally_wait"
    /\ waitCount' # waitCount =>
          /\ pc = "finally_wait"
          /\ termCount = 1 /\ waitCount = 0
          /\ proc = "terminated" /\ proc' = "reaped"
          /\ pc' \in EndPCs
    /\ (pc = "finally_close" /\ pc' = "finally_terminate" /\ sock # "none") =>
          closeCount' = closeCount + 1

(* C30: the teardown closes the socket, when there is one, then signals    *)
(* the debuggee to terminate, then waits for it, each at most once and in  *)
(* that order; the process is not waited for before it was signalled, and  *)
(* start_debug_session returns only with the process reaped.               *)
C30_TeardownInOrder ==
    /\ [][TeardownInOrder]_vars
    /\ [](waitCount <= termCount /\ termCount <= 1 /\ closeCount <= 1)
    /\ [](termCount = 1 => (sock # "none" => (sock = "closed" /\ closeCount = 1)))
    /\ [](pc = "returned" =>
             /\ proc = "reaped" /\ waitCount = 1 /\ termCount = 1
             /\ sock # "none" => (sock = "closed" /\ closeCount = 1))

(* the handshake ran to its end and the teardown closed the socket,        *)
(* terminated the process and reaped it before the return                  *)
C30_Witness ==
    /\ pc = "returned" /\ proc = "reaped"
    /\ closeCount = 1 /\ termCount = 1 /\ waitCount = 1 /\ sock = "closed"
    /\ \E k \in 1..Len(trace) : trace[k] = ResponseOf("scopes")

(* socket.socket() raised: there is no socket to close, and the teardown   *)
(* still terminated and reaped the process                                 *)
C30_NoSocketWitness ==
    /\ pc = "returned" /\ sock = "none" /\ closeCount = 0
    /\ termCount = 1 /\ waitCount = 1 /\ proc = "reaped"

====
